---- MODULE Spec2Model ----
(***************************************************************************)
(* A model of DVHA-MLCA (mlca/mlc_analyzer.py, mlca/utilities.py,          *)
(* mlca/options.py): the hierarchy Plan -> FxGroup -> Beam -> ControlPoint *)
(* and the batch coordinator PlanSet.                                      *)
(*                                                                         *)
(* Numbers.  Python floats are modelled by exact extended rationals        *)
(* <<n, d>> in lowest terms with d >= 0; d = 0 stands for the IEEE values  *)
(* numpy produces on a division by zero: <<1,0>> = inf, <<-1,0>> = -inf,   *)
(* <<0,0>> = nan.  Rounding error of binary floating point is not          *)
(* modelled.                                                               *)
(*                                                                         *)
(* Datasets.  A pydicom Dataset is a record whose DOMAIN is the set of     *)
(* tags it carries, so hasattr(ds, "Tag") is "Tag" \in DOMAIN ds.          *)
(*                                                                         *)
(* Exceptions.  An operation that raises returns Raise(e).                 *)
(***************************************************************************)
EXTENDS Integers, Sequences, FiniteSets, TLC

VARIABLES
    input,          \* the arguments of the call under analysis
    result,         \* the object the call constructed, Raise(e), or Pending
    file_paths,     \* PlanSet.file_paths
    processes,      \* PlanSet.processes
    summary_table,  \* PlanSet.summary_table
    pc,             \* position of the PlanSet constructor
    idx,            \* loop index i of PlanSet._run
    pool,           \* run_multiprocessing: queue items not yet yielded
    data,           \* run_multiprocessing: the list data; main.PlanSet: self.plans
    stdout          \* what the coordinator has printed

vars == <<input, result, file_paths, processes, summary_table, pc, idx,
          pool, data, stdout>>

batch_vars == <<file_paths, processes, summary_table, pc, idx, pool, data,
                stdout>>

-----------------------------------------------------------------------------
(* Exceptions and absent values *)

Raise(e) == [raised |-> e]

IsRaised(x) == "raised" \in DOMAIN x

None == [none |-> TRUE]

Pending == [pending |-> TRUE]

hasattr(ds, tag) == tag \in DOMAIN ds

-----------------------------------------------------------------------------
(* Extended rational arithmetic standing for float / numpy arithmetic *)

Abs(i) == IF i < 0 THEN -i ELSE i

Sign(i) == IF i < 0 THEN -1 ELSE IF i > 0 THEN 1 ELSE 0

RECURSIVE GCD(_, _)
GCD(a, b) == IF b = 0 THEN a ELSE GCD(b, a % b)

Norm(n, d) ==
    IF d = 0 THEN <<Sign(n), 0>>
    ELSE LET g == GCD(Abs(n), Abs(d))
         IN  <<(Sign(d) * n) \div g, Abs(d) \div g>>

R(i) == <<i, 1>>

NaN == <<0, 0>>

IsFinite(a) == a[2] # 0

RNeg(a) == <<-a[1], a[2]>>

RAdd(a, b) ==
    IF a = NaN \/ b = NaN THEN NaN
    ELSE IF ~IsFinite(a) /\ ~IsFinite(b) THEN (IF a = b THEN a ELSE NaN)
    ELSE IF ~IsFinite(a) THEN a
    ELSE IF ~IsFinite(b) THEN b
    ELSE Norm(a[1] * (b[2] \div GCD(a[2], b[2])) + b[1] * (a[2] \div GCD(a[2], b[2])),
              (a[2] \div GCD(a[2], b[2])) * b[2])

RSub(a, b) == RAdd(a, RNeg(b))

RMul(a, b) == Norm(a[1] * b[1], a[2] * b[2])

\* numpy true division: x / 0 is inf, -inf or nan, never an exception
RDiv(a, b) ==
    IF b[1] = 0 /\ b[2] # 0 THEN <<Sign(a[1]), 0>>
    ELSE Norm(a[1] * b[2], a[2] * b[1])

RAbs(a) == <<Abs(a[1]), a[2]>>

\* a < b on finite values (a comparison with nan is False)
RLess(a, b) ==
    /\ IsFinite(a)
    /\ IsFinite(b)
    /\ a[1] * (b[2] \div GCD(a[2], b[2])) < b[1] * (a[2] \div GCD(a[2], b[2]))

RMin(a, b) == IF RLess(b, a) THEN b ELSE a

RMax(a, b) == IF RLess(a, b) THEN b ELSE a

\* np.sum over a list
RECURSIVE NpSum(_)
NpSum(s) == IF s = <<>> THEN R(0) ELSE RAdd(NpSum(SubSeq(s, 1, Len(s) - 1)), s[Len(s)])

\* np.diff over a list
NpDiff(s) == [i \in 1..(IF Len(s) = 0 THEN 0 ELSE Len(s) - 1) |-> RSub(s[i + 1], s[i])]

-----------------------------------------------------------------------------
(* mlca/options.py *)

BEAM_MU_TOLERANCE == <<1, 1000>>

CONTROL_POINT_MU_TOLERANCE == <<1, 100000>>

CONTROL_POINT_POS_TOLERANCE == <<1, 10000>>

DEFAULT_OPTIONS ==
    [max_field_size_x |-> R(400), max_field_size_y |-> R(400),
     complexity_weight_x |-> R(1), complexity_weight_y |-> R(1)]

\* get_options that takes over every key of over_rides
get_options_all_keys(over_rides) ==
    [k \in DOMAIN DEFAULT_OPTIONS \cup DOMAIN over_rides |->
        IF k \in DOMAIN over_rides THEN over_rides[k] ELSE DEFAULT_OPTIONS[k]]

\* get_options: the defaults, overridden by the recognized keys of over_rides
get_options(over_rides) ==
    [k \in DOMAIN DEFAULT_OPTIONS |->
        IF k \in DOMAIN over_rides THEN over_rides[k] ELSE DEFAULT_OPTIONS[k]]

-----------------------------------------------------------------------------
(* The shapely capability (shapely.geometry.Polygon, .area, .exterior.xy,  *)
(* .buffer(0), .intersection), modelled on shapes with axis-parallel       *)
(* edges.  A shape is a record with a field type, as shapely reports it.   *)

Polygon(ring) == [type |-> "Polygon", exterior |-> ring]

MultiPolygon(polys) == [type |-> "MultiPolygon", geoms |-> polys]

GeometryCollection(members) == [type |-> "GeometryCollection", geoms |-> members]

\* Polygon(points) closes the ring it is given
CloseRing(points) ==
    IF points = <<>> \/ points[1] = points[Len(points)] THEN points
    ELSE Append(points, points[1])

\* twice the signed area of a closed ring (shoelace formula)
RECURSIVE Shoelace(_, _)
Shoelace(ring, i) ==
    IF i >= Len(ring) THEN R(0)
    ELSE RAdd(RSub(RMul(ring[i][1], ring[i + 1][2]),
                   RMul(ring[i + 1][1], ring[i][2])),
              Shoelace(ring, i + 1))

\* shapely's .area
RECURSIVE ShapeArea(_)
ShapeArea(shape) ==
    IF shape.type = "Polygon"
    THEN RDiv(RAbs(Shoelace(shape.exterior, 1)), R(2))
    ELSE IF shape.type \in {"MultiPolygon", "GeometryCollection"}
    THEN NpSum([k \in 1..Len(shape.geoms) |-> ShapeArea(shape.geoms[k])])
    ELSE R(0)

\* SumAbsDiff without np.abs
SumAbsDiff_signed(ring, c) ==
    NpSum(NpDiff([j \in 1..Len(ring) |-> ring[j][c]]))

\* sum(abs(diff(c))) of one coordinate c (1 = x, 2 = y) of a ring
SumAbsDiff(ring, c) ==
    NpSum([k \in 1..Len(NpDiff([j \in 1..Len(ring) |-> ring[j][c]])) |->
              RAbs(NpDiff([j \in 1..Len(ring) |-> ring[j][c]])[k])])

PathAdd(p, q) == <<RAdd(p[1], q[1]), RAdd(p[2], q[2])>>

RECURSIVE PathSum(_)
PathSum(paths) ==
    IF paths = <<>> THEN <<R(0), R(0)>>
    ELSE PathAdd(PathSum(SubSeq(paths, 1, Len(paths) - 1)), paths[Len(paths)])

\* utilities.get_xy_path_lengths
RECURSIVE get_xy_path_lengths(_)
get_xy_path_lengths(shapely_object) ==
    IF shapely_object.type = "GeometryCollection"
    THEN PathSum([k \in 1..Len(shapely_object.geoms) |->
            IF shapely_object.geoms[k].type \in {"MultiPolygon", "Polygon"}
            THEN get_xy_path_lengths(shapely_object.geoms[k])
            ELSE <<R(0), R(0)>>])
    ELSE IF shapely_object.type = "MultiPolygon"
    THEN PathSum([k \in 1..Len(shapely_object.geoms) |->
            get_xy_path_lengths(shapely_object.geoms[k])])
    ELSE IF shapely_object.type = "Polygon"
    THEN <<SumAbsDiff(shapely_object.exterior, 1),
           SumAbsDiff(shapely_object.exterior, 2)>>
    ELSE <<R(0), R(0)>>

\* utilities.flatten_list_of_lists with both flags False
RECURSIVE flatten(_)
flatten(some_list) ==
    IF some_list = <<>> THEN <<>>
    ELSE some_list[1] \o flatten(Tail(some_list))

\* the loop of lines 84-88: the values in the order of their first occurrence
RECURSIVE FirstOccurrences(_, _)
FirstOccurrences(items, ans) ==
    IF items = <<>> THEN ans
    ELSE FirstOccurrences(Tail(items),
            IF \E k \in 1..Len(ans) : ans[k] = items[1] THEN ans
            ELSE Append(ans, items[1]))

\* sorted(data) on a list of integers
RECURSIVE sorted(_)
sorted(items) ==
    IF items = <<>> THEN <<>>
    ELSE LET low == CHOOSE k \in 1..Len(items) : \A m \in 1..Len(items) : items[k] <= items[m]
         IN  <<items[low]>>
             \o sorted([m \in 1..(Len(items) - 1) |->
                           IF m < low THEN items[m] ELSE items[m + 1]])

\* list(set(data)): the distinct values in the iteration order of the set,
\* which the language leaves open
ListsOfSet(items) ==
    LET values == {items[k] : k \in 1..Len(items)}
    IN  {order \in [1..Cardinality(values) -> values] :
            \A v \in values : \E k \in 1..Cardinality(values) : order[k] = v}

\* utilities.flatten_list_of_lists: the lists a call may return
flatten_list_of_lists(some_list, remove_duplicates, sort) ==
    IF remove_duplicates
    THEN IF sort THEN ListsOfSet(flatten(some_list))
         ELSE {FirstOccurrences(flatten(some_list), <<>>)}
    ELSE IF sort THEN {sorted(flatten(some_list))}
    ELSE {flatten(some_list)}

Reverse(s) == [k \in 1..Len(s) |-> s[Len(s) + 1 - k]]

-----------------------------------------------------------------------------
(* class ControlPoint.  An object is a record of the instance attributes;  *)
(* attrs holds the attributes _set_leaf_jaw_type creates with setattr.     *)
(* Position arrays of MLC devices have an even number of entries (two      *)
(* banks of N leaves) and bank A is not to the right of bank B.            *)

\* str.lower on the device types
Lower(s) ==
    CASE s = "ASYMX" -> "asymx" [] s = "ASYMY" -> "asymy"
      [] s = "MLCX" -> "mlcx"   [] s = "MLCY" -> "mlcy"
      [] s = "X" -> "x"         [] s = "Y" -> "y"
      [] s = "Mlcx" -> "mlcx"   [] s = "WEDGE" -> "wedge"
      [] s = "MLC" -> "mlc"     [] s = "OPTIONS" -> "options"
      [] OTHER -> s

\* the properties of the class: they have no setter, so setattr on one of
\* these names raises AttributeError
ControlPointProperties ==
    {"cum_mu", "mlc", "leaf_type", "perimeter_x", "perimeter_y", "perimeter",
     "mlc_borders", "aperture", "jaws"}

RECURSIVE SetAttrs(_, _, _)
SetAttrs(seq, k, attrs) ==
    IF k > Len(seq) THEN attrs
    ELSE LET device_position_seq == seq[k] IN
         IF hasattr(device_position_seq, "RTBeamLimitingDeviceType")
            /\ hasattr(device_position_seq, "LeafJawPositions")
         THEN LET leaf_jaw_type == Lower(device_position_seq.RTBeamLimitingDeviceType)
                  positions == [j \in 1..Len(device_position_seq.LeafJawPositions) |->
                                   R(device_position_seq.LeafJawPositions[j])]
                  mid_index == Len(positions) \div 2
              IN  IF leaf_jaw_type \in ControlPointProperties
                  THEN Raise("AttributeError")
                  ELSE SetAttrs(seq, k + 1,
                      (leaf_jaw_type :> <<SubSeq(positions, 1, mid_index),
                                          SubSeq(positions, mid_index + 1, Len(positions))>>)
                      @@ attrs)
         ELSE SetAttrs(seq, k + 1, attrs)

\* ControlPoint._set_leaf_jaw_type: the attributes it sets
set_leaf_jaw_type(cp_elem) ==
    IF hasattr(cp_elem, "BeamLimitingDevicePositionSequence")
    THEN SetAttrs(cp_elem.BeamLimitingDevicePositionSequence, 1, <<>>)
    ELSE <<>>

\* ControlPoint.leaf_type ("None" stands for None)
ControlPoint_leaf_type(cp) ==
    IF hasattr(cp.attrs, "mlcx") THEN "mlcx"
    ELSE IF hasattr(cp.attrs, "mlcy") THEN "mlcy"
    ELSE "None"

\* ControlPoint.mlc
ControlPoint_mlc(cp) ==
    IF hasattr(cp.attrs, "mlcx") THEN cp.attrs["mlcx"]
    ELSE IF hasattr(cp.attrs, "mlcy") THEN cp.attrs["mlcy"]
    ELSE None

\* min(values) / max(values) of ControlPoint.jaws raise unless an asymmetric
\* jaw device has exactly two positions (two arrays of one element each);
\* self.options["max_field_size_x"] raises when a device of type "options"
\* has replaced the dictionary self.options by a list
JawsRaises(cp) ==
    \/ hasattr(cp.attrs, "options")
    \/ \E dim \in {"x", "y"} :
        /\ hasattr(cp.attrs, "asym" \o dim)
        /\ \/ Len(cp.attrs["asym" \o dim][1]) # 1
           \/ Len(cp.attrs["asym" \o dim][2]) # 1

JawValues(cp, dim) ==
    IF hasattr(cp.attrs, "asym" \o dim)
    THEN <<cp.attrs["asym" \o dim][1][1], cp.attrs["asym" \o dim][2][1]>>
    ELSE <<RNeg(RDiv(cp.options["max_field_size_" \o dim], R(2))),
           RDiv(cp.options["max_field_size_" \o dim], R(2))>>

\* JawsOf that takes the two values in the order recorded
JawsOf_as_recorded(xvalues, yvalues) ==
    [x_min |-> xvalues[1], x_max |-> xvalues[2],
     y_min |-> yvalues[1], y_max |-> yvalues[2]]

\* float(min(values)), float(max(values)) per dimension
JawsOf(xvalues, yvalues) ==
    [x_min |-> RMin(xvalues[1], xvalues[2]), x_max |-> RMax(xvalues[1], xvalues[2]),
     y_min |-> RMin(yvalues[1], yvalues[2]), y_max |-> RMax(yvalues[1], yvalues[2])]

\* ControlPoint.jaws
ControlPoint_jaws(cp) == JawsOf(JawValues(cp, "x"), JawValues(cp, "y"))

\* the leaf rows of the MLC outline, clipped to the jaw rectangle; l, r are
\* on the axis the leaves move on (limits umin, umax), t, b on the axis of
\* the leaf boundaries (limits vmin, vmax)
ClippedRows(mlc, lb, umin, umax, vmin, vmax) ==
    [i \in 1..Len(mlc[1]) |->
        [l |-> RMax(mlc[1][i], umin), r |-> RMin(mlc[2][i], umax),
         t |-> RMax(R(lb[i]), vmin),  b |-> RMin(R(lb[i + 1]), vmax)]]

LeafRows(cp, jaws, isx) ==
    IF isx
    THEN ClippedRows(ControlPoint_mlc(cp), cp.leaf_boundaries,
                     jaws.x_min, jaws.x_max, jaws.y_min, jaws.y_max)
    ELSE ClippedRows(ControlPoint_mlc(cp), cp.leaf_boundaries,
                     jaws.y_min, jaws.y_max, jaws.x_min, jaws.x_max)

IsOpen(row) == RLess(row.l, row.r) /\ RLess(row.t, row.b)

Joined(r1, r2) == RLess(RMax(r1.l, r2.l), RMin(r1.r, r2.r))

\* the connected pieces of a stack of clipped leaf rows
RECURSIVE Components(_, _, _, _)
Components(rows, i, cur, acc) ==
    LET closed == IF cur = <<>> THEN acc ELSE Append(acc, cur) IN
    IF i > Len(rows) THEN closed
    ELSE IF ~IsOpen(rows[i]) THEN Components(rows, i + 1, <<>>, closed)
    ELSE IF cur # <<>> /\ Joined(cur[Len(cur)], rows[i])
         THEN Components(rows, i + 1, Append(cur, rows[i]), acc)
    ELSE Components(rows, i + 1, <<rows[i]>>, closed)

\* the two corner points a leaf row puts on a bank at position m
RowPoints(row, m, isx) ==
    IF isx THEN <<<<m, row.t>>, <<m, row.b>>>> ELSE <<<<row.t, m>>, <<row.b, m>>>>

\* the outline of one piece: bank A downwards, then bank B reversed
RingOf(c, isx) ==
    CloseRing(flatten([k \in 1..Len(c) |-> RowPoints(c[k], c[k].l, isx)])
              \o Reverse(flatten([k \in 1..Len(c) |-> RowPoints(c[k], c[k].r, isx)])))

\* ControlPoint.aperture raises when leaves are present and the leaf
\* boundaries are None (TypeError) or too few (IndexError)
ApertureRaises(cp) ==
    \/ JawsRaises(cp)
    \/ /\ ControlPoint_leaf_type(cp) # "None"
       /\ \E side \in {1, 2} :
            /\ Len(ControlPoint_mlc(cp)[side]) > 0
            /\ \/ cp.leaf_boundaries = None
               \/ Len(cp.leaf_boundaries) < Len(ControlPoint_mlc(cp)[side]) + 1

\* the shape shapely returns for the pieces of the clipped leaf outline
ShapeOf(comps, isx) ==
    IF Len(comps) = 0 THEN GeometryCollection(<<>>)
    ELSE IF Len(comps) = 1 THEN Polygon(RingOf(comps[1], isx))
    ELSE MultiPolygon([k \in 1..Len(comps) |-> Polygon(RingOf(comps[k], isx))])

JawPolygon(jaws) ==
    Polygon(CloseRing(<<<<jaws.x_min, jaws.y_min>>, <<jaws.x_min, jaws.y_max>>,
                        <<jaws.x_max, jaws.y_max>>, <<jaws.x_max, jaws.y_min>>>>))

ApertureOf(cp, jaws, leaf_type) ==
    IF leaf_type = "None" THEN JawPolygon(jaws)
    ELSE ShapeOf(Components(LeafRows(cp, jaws, leaf_type = "mlcx"), 1, <<>>, <<>>),
                 leaf_type = "mlcx")

\* ControlPoint.aperture
ControlPoint_aperture(cp) ==
    ApertureOf(cp, ControlPoint_jaws(cp), ControlPoint_leaf_type(cp))

\* the ControlPoint built from the attributes set before line 853
WithPathLengths(self) ==
    IF IsRaised(self.attrs) THEN self.attrs
    ELSE IF ApertureRaises(self) THEN Raise("ControlPoint")
    ELSE [cp_elem |-> self.cp_elem, leaf_boundaries |-> self.leaf_boundaries,
          options |-> self.options, attrs |-> self.attrs,
          path_lengths |-> get_xy_path_lengths(ControlPoint_aperture(self))]

\* ControlPoint.__init__
ControlPoint_init(cp_elem, leaf_boundaries, kwargs) ==
    WithPathLengths([cp_elem |-> cp_elem, leaf_boundaries |-> leaf_boundaries,
                     options |-> get_options(kwargs),
                     attrs |-> set_leaf_jaw_type(cp_elem)])

\* ControlPoint.cum_mu
ControlPoint_cum_mu(cp) == cp.cp_elem.CumulativeMetersetWeight

ControlPoint_perimeter_x(cp) == cp.path_lengths[1]

ControlPoint_perimeter_y(cp) == cp.path_lengths[2]

ControlPoint_perimeter(cp) ==
    RAdd(ControlPoint_perimeter_x(cp), ControlPoint_perimeter_y(cp))

-----------------------------------------------------------------------------
(* class Beam *)

\* a numpy array (it has .tolist()) and a plain Python int (it has not)
NdArray(seq) == [tolist |-> seq]

PyInt(i) == [int |-> i]

\* np.sum of an array or of a scalar
NpSumOf(x) == IF hasattr(x, "tolist") THEN NpSum(x.tolist) ELSE R(x.int)

\* [float(cp.<tag>) for cp in cp_seq if hasattr(cp, <tag>)]
RECURSIVE TagValues(_, _)
TagValues(cp_seq, tag) ==
    IF cp_seq = <<>> THEN <<>>
    ELSE (IF hasattr(cp_seq[1], tag) THEN <<R(cp_seq[1][tag])>> ELSE <<>>)
         \o TagValues(Tail(cp_seq), tag)

\* Beam.cp_seq
Beam_cp_seq(self) == self.beam_dataset.ControlPointSequence

\* Beam.cp_count
Beam_cp_count(self) == Len(Beam_cp_seq(self))

\* Beam.leaf_boundaries
RECURSIVE FirstLeafBoundaries(_)
FirstLeafBoundaries(bld) ==
    IF bld = <<>> THEN None
    ELSE IF hasattr(bld[1], "LeafPositionBoundaries")
         THEN bld[1].LeafPositionBoundaries
    ELSE FirstLeafBoundaries(Tail(bld))

Beam_leaf_boundaries(self) ==
    FirstLeafBoundaries(self.beam_dataset.BeamLimitingDeviceSequence)

\* Beam.name
Beam_name(self) ==
    IF hasattr(self.beam_dataset, "BeamDescription")
    THEN self.beam_dataset.BeamDescription
    ELSE IF hasattr(self.beam_dataset, "BeamName")
    THEN self.beam_dataset.BeamName
    ELSE "Unknown"

\* Beam.cum_mu
Beam_cum_mu(self) ==
    [i \in 1..Len(self.control_point) |->
        RMul(ControlPoint_cum_mu(self.control_point[i]), self.meter_set)]

\* Beam.cp_mu with the trailing 0 put in front of the differences
Beam_cp_mu_shifted(self) == <<R(0)>> \o NpDiff(Beam_cum_mu(self))

\* Beam.cp_mu
Beam_cp_mu(self) == NpDiff(Beam_cum_mu(self)) \o <<R(0)>>

\* Beam.jaws: a list built anew on every access
Beam_jaws(self) ==
    [i \in 1..Len(self.control_point) |-> ControlPoint_jaws(self.control_point[i])]

\* Beam.aperture
Beam_aperture(self) ==
    [i \in 1..Len(self.control_point) |-> ControlPoint_aperture(self.control_point[i])]

\* Beam.area
Beam_area(self) ==
    [i \in 1..Len(self.control_point) |-> ShapeArea(Beam_aperture(self)[i])]

Beam_perimeter_x(self) ==
    [i \in 1..Len(self.control_point) |-> ControlPoint_perimeter_x(self.control_point[i])]

Beam_perimeter_y(self) ==
    [i \in 1..Len(self.control_point) |-> ControlPoint_perimeter_y(self.control_point[i])]

Beam_perimeter(self) ==
    [i \in 1..Len(self.control_point) |-> ControlPoint_perimeter(self.control_point[i])]

Beam_gantry_angle(self) == TagValues(Beam_cp_seq(self), "GantryAngle")

Beam_collimator_angle(self) == TagValues(Beam_cp_seq(self), "BeamLimitingDeviceAngle")

Beam_couch_angle(self) == TagValues(Beam_cp_seq(self), "PatientSupportAngle")

\* Beam.younge_complexity_scores with the x weight applied to both perimeters
Beam_younge_complexity_scores_one_weight(self) ==
    LET c1 == self.options.complexity_weight_x
    IN  IF self.meter_set # R(0) /\ RLess(R(0), self.meter_set)
        THEN NdArray([i \in 1..Len(self.control_point) |->
                RDiv(RDiv(RMul(RAdd(RMul(c1, Beam_perimeter_x(self)[i]),
                                    RMul(c1, Beam_perimeter_y(self)[i])),
                               Beam_cp_mu(self)[i]),
                          Beam_area(self)[i]),
                     self.meter_set)])
        ELSE PyInt(0)

\* Beam.younge_complexity_scores: an array when meter_set > 0, else the int 0
Beam_younge_complexity_scores(self) ==
    LET c1 == self.options.complexity_weight_x
        c2 == self.options.complexity_weight_y
    IN  IF self.meter_set # R(0) /\ RLess(R(0), self.meter_set)
        THEN NdArray([i \in 1..Len(self.control_point) |->
                RDiv(RDiv(RMul(RAdd(RMul(c1, Beam_perimeter_x(self)[i]),
                                    RMul(c2, Beam_perimeter_y(self)[i])),
                               Beam_cp_mu(self)[i]),
                          Beam_area(self)[i]),
                     self.meter_set)])
        ELSE PyInt(0)

SummaryOf(self, jaws) ==
    [cp          |-> [i \in 1..Len(self.control_point) |-> i],
     cum_mu_frac |-> [i \in 1..Len(self.control_point) |->
                         ControlPoint_cum_mu(self.control_point[i])],
     cum_mu      |-> Beam_cum_mu(self),
     cp_mu       |-> Beam_cp_mu(self),
     gantry      |-> Beam_gantry_angle(self),
     collimator  |-> Beam_collimator_angle(self),
     couch       |-> Beam_couch_angle(self),
     jaw_x1      |-> [i \in 1..Len(jaws) |-> jaws[i].x_min],
     jaw_x2      |-> [i \in 1..Len(jaws) |-> jaws[i].x_max],
     jaw_y1      |-> [i \in 1..Len(jaws) |-> jaws[i].y_min],
     jaw_y2      |-> [i \in 1..Len(jaws) |-> jaws[i].y_max],
     area        |-> Beam_area(self),
     x_perim     |-> Beam_perimeter_x(self),
     y_perim     |-> Beam_perimeter_y(self),
     perim       |-> Beam_perimeter(self),
     cmp_score   |-> Beam_younge_complexity_scores(self).tolist]

\* the dictionary Beam.__init__ first stores in self.summary
Beam_summary_dict(self) == SummaryOf(self, Beam_jaws(self))

\* a list of one element is repeated len(summary["cp"]) times
Replicated(summary) ==
    [key \in DOMAIN summary |->
        IF Len(summary[key]) = 1
        THEN [i \in 1..Len(summary.cp) |-> summary[key][1]]
        ELSE summary[key]]

\* NonZeroIndices that drops the last entry only, whatever the values are
RECURSIVE NonZeroIndices_all(_, _)
NonZeroIndices_all(values, i) ==
    IF i > Len(values) THEN <<>>
    ELSE (IF i < Len(values) THEN <<i>> ELSE <<>>) \o NonZeroIndices_all(values, i + 1)

\* the indexes (from 1) of the nonzero entries of a list, ascending
RECURSIVE NonZeroIndices(_, _)
NonZeroIndices(values, i) ==
    IF i > Len(values) THEN <<>>
    ELSE (IF values[i] # R(0) THEN <<i>> ELSE <<>>) \o NonZeroIndices(values, i + 1)

Filtered(summary, non_zero_indices) ==
    [key \in DOMAIN summary |->
        [k \in 1..Len(non_zero_indices) |-> summary[key][non_zero_indices[k]]]]

WithSummary(self, summary) ==
    [beam_dataset |-> self.beam_dataset, meter_set |-> self.meter_set,
     ignore_zero_mu_cp |-> self.ignore_zero_mu_cp, options |-> self.options,
     control_point |-> self.control_point, summary |-> summary]

\* lines 559-568: the zero-MU filter
FilterSummary(self, summary, non_zero_indices) ==
    IF ~self.ignore_zero_mu_cp THEN WithSummary(self, summary)
    ELSE IF \E key \in DOMAIN summary : \E k \in 1..Len(non_zero_indices) :
                non_zero_indices[k] > Len(summary[key])
    THEN Raise("IndexError")
    ELSE WithSummary(self, Filtered(summary, non_zero_indices))

\* lines 560-564: the indexes of the nonzero entries of summary["cp_mu"]
SelectNonZero(self, summary) ==
    FilterSummary(self, summary, NonZeroIndices(summary.cp_mu, 1))

\* lines 536-557
BuildSummary(self) ==
    IF \E i \in 1..Len(self.control_point) : IsRaised(self.control_point[i])
    THEN Raise("ControlPoint")
    ELSE IF \E i \in 1..Len(self.control_point) :
                ~hasattr(self.control_point[i].cp_elem, "CumulativeMetersetWeight")
    THEN Raise("AttributeError")
    ELSE IF ~hasattr(Beam_younge_complexity_scores(self), "tolist")
    THEN Raise("AttributeError")
    ELSE SelectNonZero(self, Replicated(Beam_summary_dict(self)))

\* lines 532-534
BuildControlPoints(self) ==
    BuildSummary(
        [beam_dataset |-> self.beam_dataset, meter_set |-> self.meter_set,
         ignore_zero_mu_cp |-> self.ignore_zero_mu_cp, options |-> self.options,
         control_point |->
            [i \in 1..Len(Beam_cp_seq(self)) |->
                ControlPoint_init(Beam_cp_seq(self)[i], Beam_leaf_boundaries(self), <<>>)]])

\* Beam.__init__
Beam_init(beam_dataset, meter_set, ignore_zero_mu_cp, kwargs) ==
    IF ~hasattr(beam_dataset, "ControlPointSequence")
       \/ (beam_dataset.ControlPointSequence # <<>>
           /\ ~hasattr(beam_dataset, "BeamLimitingDeviceSequence"))
    THEN Raise("AttributeError")
    ELSE BuildControlPoints(
            [beam_dataset |-> beam_dataset, meter_set |-> meter_set,
             ignore_zero_mu_cp |-> ignore_zero_mu_cp,
             options |-> get_options(kwargs)])

-----------------------------------------------------------------------------
(* Strings: str(), "%0.1f" %, "%0.3f" % and str.join *)

Digit(d) == <<"0", "1", "2", "3", "4", "5", "6", "7", "8", "9">>[d + 1]

RECURSIVE NatStr(_)
NatStr(n) == IF n < 10 THEN Digit(n) ELSE NatStr(n \div 10) \o Digit(n % 10)

\* str() of an int
str(i) == IF i < 0 THEN "-" \o NatStr(-i) ELSE NatStr(i)

RECURSIVE Pow10(_)
Pow10(k) == IF k = 0 THEN 1 ELSE 10 * Pow10(k - 1)

\* the k low decimal digits of n, zero padded
RECURSIVE Digits(_, _)
Digits(n, k) == IF k = 0 THEN "" ELSE Digits(n \div 10, k - 1) \o Digit(n % 10)

\* "%0.<k>f" % a: a rounded to k decimals (ties to even), or nan / inf
FormatFixed(a, k) ==
    IF a = NaN THEN "nan"
    ELSE IF ~IsFinite(a) THEN (IF a[1] < 0 THEN "-inf" ELSE "inf")
    ELSE LET num == Abs(a[1]) * Pow10(k)
             q == num \div a[2]
             rem == num % a[2]
             rounded == IF 2 * rem > a[2] \/ (2 * rem = a[2] /\ q % 2 = 1)
                        THEN q + 1 ELSE q
         IN  (IF a[1] < 0 THEN "-" ELSE "")
             \o NatStr(rounded \div Pow10(k)) \o "." \o Digits(rounded % Pow10(k), k)

\* sep.join(strings)
RECURSIVE Join(_, _)
Join(sep, strings) ==
    IF strings = <<>> THEN ""
    ELSE IF Len(strings) = 1 THEN strings[1]
    ELSE strings[1] \o sep \o Join(sep, Tail(strings))

-----------------------------------------------------------------------------
(* class FxGroup *)

\* the dictionary meter_set of FxGroup.__init__, keyed by str(beam number);
\* a later entry of the referenced beam sequence replaces an earlier one
RECURSIVE MeterSetDict(_, _, _)
MeterSetDict(ref_seq, k, meter_set) ==
    IF k > Len(ref_seq) THEN meter_set
    ELSE MeterSetDict(ref_seq, k + 1,
            (str(ref_seq[k].ReferencedBeamNumber) :> R(ref_seq[k].BeamMeterset))
            @@ meter_set)

\* Beam(beam, meter_set[beam_num]) for a referenced beam, nothing otherwise
BeamIfReferenced(beam, beam_num, meter_set) ==
    IF beam_num \in DOMAIN meter_set
    THEN <<Beam_init(beam, meter_set[beam_num], FALSE, <<>>)>>
    ELSE <<>>

\* GroupBeams with each beam inserted at the front of self.beam
RECURSIVE GroupBeams_reversed(_, _)
GroupBeams_reversed(plan_beam_sequences, meter_set) ==
    IF plan_beam_sequences = <<>> THEN <<>>
    ELSE GroupBeams_reversed(Tail(plan_beam_sequences), meter_set)
         \o BeamIfReferenced(plan_beam_sequences[1],
                             str(plan_beam_sequences[1].BeamNumber), meter_set)

\* the beams FxGroup.__init__ appends to self.beam, in beam sequence order
RECURSIVE GroupBeams(_, _)
GroupBeams(plan_beam_sequences, meter_set) ==
    IF plan_beam_sequences = <<>> THEN <<>>
    ELSE BeamIfReferenced(plan_beam_sequences[1],
                          str(plan_beam_sequences[1].BeamNumber), meter_set)
         \o GroupBeams(Tail(plan_beam_sequences), meter_set)

FxGroup_beam_count(self) == Len(self.beam)

FxGroup_beam_names(self) == [k \in 1..Len(self.beam) |-> Beam_name(self.beam[k])]

FxGroup_beam_mu(self) == [k \in 1..Len(self.beam) |-> self.beam[k].meter_set]

FxGroup_fx_mu(self) == NpSum(FxGroup_beam_mu(self))

FxGroup_cp_counts(self) == [k \in 1..Len(self.beam) |-> Beam_cp_count(self.beam[k])]

\* FxGroup.younge_complexity_score without the inner sum over control points
FxGroup_younge_complexity_score_first(self) ==
    NpSum([k \in 1..Len(self.beam) |->
              IF Beam_younge_complexity_scores(self.beam[k]).tolist = <<>> THEN R(0)
              ELSE Beam_younge_complexity_scores(self.beam[k]).tolist[1]])

\* FxGroup.younge_complexity_score
FxGroup_younge_complexity_score(self) ==
    NpSum([k \in 1..Len(self.beam) |->
              NpSumOf(Beam_younge_complexity_scores(self.beam[k]))])

\* the test of lines 498-503 on one jaw record
IsMaxField(self, cp) ==
    /\ cp.x_min = RNeg(RDiv(self.options.max_field_size_x, R(2)))
    /\ cp.x_max = RDiv(self.options.max_field_size_x, R(2))
    /\ cp.y_min = RNeg(RDiv(self.options.max_field_size_y, R(2)))
    /\ cp.y_max = RDiv(self.options.max_field_size_y, R(2))

\* a list of jaw records after the assignments of line 504
Backfilled(self, jaws) ==
    [j \in 1..Len(jaws) |-> IF IsMaxField(self, jaws[j]) THEN jaws[1] ELSE jaws[j]]

\* the list that line 504 assigns into: a new list of the beam's jaw records
BackfilledJaws(self, beam) == Backfilled(self, Beam_jaws(beam))

\* update_missing_jaws that exchanges the device attributes of the first two
\* control points of every beam
FxGroup_update_missing_jaws_exchanged(self) ==
    [self EXCEPT !.beam =
        [k \in 1..Len(self.beam) |->
            IF Len(self.beam[k].control_point) < 2 THEN self.beam[k]
            ELSE [self.beam[k] EXCEPT
                    !.control_point[1].attrs = self.beam[k].control_point[2].attrs,
                    !.control_point[2].attrs = self.beam[k].control_point[1].attrs]]]

\* FxGroup.update_missing_jaws.  beam.jaws is a property that builds a new
\* list on every access, so "beam.jaws[j] = beam.jaws[0]" stores into a
\* temporary (BackfilledJaws) that is dropped at once: no attribute of the
\* group, its beams or their control points is written.
FxGroup_update_missing_jaws(self) == self

\* the exception of the first element whose construction raised
FirstRaised(objects) ==
    objects[CHOOSE k \in 1..Len(objects) :
                /\ IsRaised(objects[k])
                /\ \A j \in 1..(k - 1) : ~IsRaised(objects[j])]

\* lines 379-384
WithBeams(fxs, options, beam) ==
    IF \E k \in 1..Len(beam) : IsRaised(beam[k]) THEN FirstRaised(beam)
    ELSE FxGroup_update_missing_jaws([fxs |-> fxs, options |-> options, beam |-> beam])

\* FxGroup.__init__
FxGroup_init(fx_grp_seq, plan_beam_sequences, kwargs) ==
    IF ~hasattr(fx_grp_seq, "ReferencedBeamSequence")
       \/ (\E k \in 1..Len(fx_grp_seq.ReferencedBeamSequence) :
              \/ ~hasattr(fx_grp_seq.ReferencedBeamSequence[k], "ReferencedBeamNumber")
              \/ ~hasattr(fx_grp_seq.ReferencedBeamSequence[k], "BeamMeterset"))
       \/ (\E k \in 1..Len(plan_beam_sequences) :
              ~hasattr(plan_beam_sequences[k], "BeamNumber"))
    THEN Raise("AttributeError")
    ELSE WithBeams(IF hasattr(fx_grp_seq, "NumberOfFractionsPlanned")
                   THEN str(fx_grp_seq.NumberOfFractionsPlanned)
                   ELSE "UNKNOWN",
                   get_options(kwargs),
                   GroupBeams(plan_beam_sequences,
                              MeterSetDict(fx_grp_seq.ReferencedBeamSequence, 1, <<>>)))

-----------------------------------------------------------------------------
(* class Plan *)

COLUMNS ==
    <<"Patient Name", "Patient MRN", "Study Instance UID", "SOP Instance UID",
      "TPS", "Plan name", "# of Fx Group(s)", "Fx Group #", "Fractions",
      "Plan MUs", "Beam Count(s)", "Control Point(s)", "Complexity Score(s)",
      "File Name">>

\* str(getattr(rt_plan, tag, ""))
TagStr(rt_plan, tag) == IF hasattr(rt_plan, tag) THEN rt_plan[tag] ELSE ""

Plan_plan_name(self) == TagStr(self.rt_plan, "RTPlanLabel")

Plan_patient_name(self) == TagStr(self.rt_plan, "PatientName")

Plan_patient_id(self) == TagStr(self.rt_plan, "PatientID")

Plan_study_instance_uid(self) == TagStr(self.rt_plan, "StudyInstanceUID")

Plan_sop_instance_uid(self) == TagStr(self.rt_plan, "SOPInstanceUID")

Plan_tps(self) ==
    TagStr(self.rt_plan, "Manufacturer") \o " "
    \o TagStr(self.rt_plan, "ManufacturerModelName")

\* Plan.younge_complexity_scores
Plan_younge_complexity_scores(self) ==
    [f \in 1..Len(self.fx_group) |-> FxGroup_younge_complexity_score(self.fx_group[f])]

\* sum() of a list of ints
RECURSIVE IntSum(_)
IntSum(ints) == IF ints = <<>> THEN 0 ELSE ints[1] + IntSum(Tail(ints))

\* one entry of the summary row of fraction group number f (counted from 1,
\* as f + 1 is in the source)
SummaryField(self, f, fx_grp, key) ==
    CASE key = "Patient Name" -> Plan_patient_name(self)
      [] key = "Patient MRN" -> Plan_patient_id(self)
      [] key = "Study Instance UID" -> Plan_study_instance_uid(self)
      [] key = "SOP Instance UID" -> Plan_sop_instance_uid(self)
      [] key = "TPS" -> Plan_tps(self)
      [] key = "Plan name" -> Plan_plan_name(self)
      [] key = "# of Fx Group(s)" -> str(Len(self.fx_group))
      [] key = "Fx Group #" -> str(f)
      [] key = "Fractions" -> fx_grp.fxs
      [] key = "Plan MUs" -> FormatFixed(FxGroup_fx_mu(fx_grp), 1)
      [] key = "Beam Count(s)" -> str(FxGroup_beam_count(fx_grp))
      [] key = "Control Point(s)" -> str(IntSum(FxGroup_cp_counts(fx_grp)))
      [] key = "Complexity Score(s)" ->
            FormatFixed(Plan_younge_complexity_scores(self)[f], 3)
      [] key = "File Name" -> self.rt_plan_file

\* Plan_summary_row with the aggregates of the first fraction group in
\* every row
Plan_summary_row_first_group(self, f) ==
    [key \in {COLUMNS[c] : c \in 1..Len(COLUMNS)} |->
        SummaryField(self, f, self.fx_group[1], key)]

Plan_summary_row(self, f) ==
    [key \in {COLUMNS[c] : c \in 1..Len(COLUMNS)} |->
        SummaryField(self, f, self.fx_group[f], key)]

\* the files pydicom.read_file can be asked for; the value is the decoded
\* dataset, or Raise(..) for a file that is not DICOM
read_file(path, files) == files[path]

\* lines 192-211
BuildPlanSummary(self) ==
    IF \E f \in 1..Len(self.fx_group) : IsRaised(self.fx_group[f])
    THEN FirstRaised(self.fx_group)
    ELSE [rt_plan_file |-> self.rt_plan_file, rt_plan |-> self.rt_plan,
          options |-> self.options, fx_group |-> self.fx_group,
          summary |-> [f \in 1..Len(self.fx_group) |-> Plan_summary_row(self, f)]]

\* lines 184-190
BuildFxGroups(rt_plan_file, ds, kwargs) ==
    IF IsRaised(ds) THEN Raise("InvalidDicomError")
    ELSE IF ~hasattr(ds, "BeamSequence") \/ ~hasattr(ds, "FractionGroupSequence")
    THEN Raise("AttributeError")
    ELSE BuildPlanSummary(
            [rt_plan_file |-> rt_plan_file, rt_plan |-> ds,
             options |-> get_options(kwargs),
             fx_group |-> [f \in 1..Len(ds.FractionGroupSequence) |->
                              FxGroup_init(ds.FractionGroupSequence[f], ds.BeamSequence, <<>>)]])

\* Plan.__init__; rt_plan is a Dataset, or [path |-> p] for a file path
Plan_init(rt_plan, kwargs, files) ==
    IF hasattr(rt_plan, "path")
    THEN BuildFxGroups(rt_plan.path, read_file(rt_plan.path, files), kwargs)
    ELSE BuildFxGroups("Unknown", rt_plan, kwargs)

\* Plan.__str__
Plan_str(self) ==
    Join("\n",
      <<"Patient Name:        " \o Plan_patient_name(self),
        "Patient MRN:         " \o Plan_patient_id(self),
        "Study Instance UID:  " \o Plan_study_instance_uid(self),
        "SOP Instance UID:    " \o Plan_sop_instance_uid(self),
        "TPS:                 " \o Plan_tps(self),
        "Plan name:           " \o Plan_plan_name(self),
        "# of Fx Group(s):    " \o str(Len(self.fx_group)),
        "Plan MUs:            "
        \o Join(", ", [f \in 1..Len(self.fx_group) |->
                          FormatFixed(FxGroup_fx_mu(self.fx_group[f]), 1)]),
        "Beam Count(s):       "
        \o Join(", ", [f \in 1..Len(self.fx_group) |->
                          str(FxGroup_beam_count(self.fx_group[f]))]),
        "Control Point(s):    "
        \o Join(", ", [f \in 1..Len(self.fx_group) |->
                          str(IntSum(FxGroup_cp_counts(self.fx_group[f])))]),
        "Complexity Score(s): "
        \o Join(", ", [f \in 1..Len(self.fx_group) |->
                          FormatFixed(Plan_younge_complexity_scores(self)[f], 3)])>>)

-----------------------------------------------------------------------------
(* The __eq__ methods.  A comparison yields [out |-> Return(bool) or       *)
(* Raise(e), printed |-> the lines it printed].                            *)

Return(v) == [returned |-> v]

Outcome(out, printed) == [out |-> out, printed |-> printed]

\* == on two floats: nan is equal to nothing, itself included
FloatEq(a, b) == a # NaN /\ b # NaN /\ a = b

\* a > b on floats (comparisons with nan are False)
FloatGreater(a, b) ==
    IF a = NaN \/ b = NaN THEN FALSE
    ELSE IF IsFinite(a) /\ IsFinite(b) THEN RLess(b, a)
    ELSE IF ~IsFinite(a) /\ ~IsFinite(b) THEN a[1] > b[1]
    ELSE IF ~IsFinite(a) THEN a[1] > 0
    ELSE b[1] < 0

\* the number of decimals str() shows of a float that is a decimal fraction
RECURSIVE Decimals(_, _)
Decimals(a, k) ==
    IF k >= 17 \/ (a[1] * Pow10(k)) % a[2] = 0 THEN k ELSE Decimals(a, k + 1)

\* str() of a float (the values printed are above 0.0001, where str() does
\* not use the exponent notation)
FloatStr(a) == IF IsFinite(a) THEN FormatFixed(a, Decimals(a, 1)) ELSE FormatFixed(a, 1)

\* the (side, i) pairs the loops of lines 966-967 visit, in order
LeafIndexes(mlc) ==
    [k \in 1..Len(mlc[1]) |-> <<1, k>>] \o [k \in 1..Len(mlc[2]) |-> <<2, k>>]

\* the loops of lines 966-970 from pair k on: a difference above the
\* tolerance is printed, and nothing else is done with it
RECURSIVE CompareLeaves(_, _, _, _, _)
CompareLeaves(self, other, indexes, k, printed) ==
    IF k > Len(indexes) THEN Outcome(Return(TRUE), printed)
    ELSE IF ControlPoint_leaf_type(other) = "None"
    THEN Outcome(Raise("TypeError"), printed)
    ELSE IF indexes[k][2] > Len(ControlPoint_mlc(other)[indexes[k][1]])
    THEN Outcome(Raise("IndexError"), printed)
    ELSE CompareLeaves(self, other, indexes, k + 1,
            IF FloatGreater(
                  RAbs(RSub(ControlPoint_mlc(self)[indexes[k][1]][indexes[k][2]],
                            ControlPoint_mlc(other)[indexes[k][1]][indexes[k][2]])),
                  CONTROL_POINT_POS_TOLERANCE)
            THEN Append(printed,
                  FloatStr(RAbs(RSub(ControlPoint_mlc(self)[indexes[k][1]][indexes[k][2]],
                                     ControlPoint_mlc(other)[indexes[k][1]][indexes[k][2]]))))
            ELSE printed)

\* ControlPoint.__eq__; self.mlc[side] raises TypeError when self.mlc is None
ControlPoint_eq(self, other) ==
    IF FloatGreater(RAbs(RSub(ControlPoint_cum_mu(self), ControlPoint_cum_mu(other))),
                    CONTROL_POINT_MU_TOLERANCE)
    THEN Outcome(Return(FALSE), <<>>)
    ELSE IF ControlPoint_leaf_type(self) = "None"
    THEN Outcome(Raise("TypeError"), <<>>)
    ELSE CompareLeaves(self, other, LeafIndexes(ControlPoint_mlc(self)), 1, <<>>)

\* lines 586-590 for control point i (counted from 1), given the outcome
\* of its comparison
RECURSIVE CompareControlPointsFrom(_, _, _, _)
ControlPointCompared(self, other, i, printed, outcome) ==
    IF IsRaised(outcome.out) THEN Outcome(outcome.out, printed \o outcome.printed)
    ELSE IF outcome.out = Return(FALSE)
    THEN Outcome(Return(FALSE),
                 printed \o outcome.printed \o <<"cp " \o str(i - 1) \o " failed">>)
    ELSE CompareControlPointsFrom(self, other, i + 1, printed \o outcome.printed)

\* the loop of lines 586-590
CompareControlPointsFrom(self, other, i, printed) ==
    IF i > Len(self.control_point) THEN Outcome(Return(TRUE), printed)
    ELSE IF i > Len(other.control_point) THEN Outcome(Raise("IndexError"), printed)
    ELSE ControlPointCompared(self, other, i, printed,
            ControlPoint_eq(self.control_point[i], other.control_point[i]))

\* Beam.__eq__; line 584 takes no absolute value of the difference
Beam_eq(self, other) ==
    IF FloatGreater(RSub(self.meter_set, other.meter_set), BEAM_MU_TOLERANCE)
    THEN Outcome(Return(FALSE), <<>>)
    ELSE CompareControlPointsFrom(self, other, 1, <<>>)

\* == on two lists of floats
FloatListEq(a, b) ==
    Len(a) = Len(b) /\ \A k \in 1..Len(a) : FloatEq(a[k], b[k])

\* lines 399-408: the six properties of two groups are all equal
FxGroupAttrsEqual(self, other) ==
    /\ FxGroup_beam_count(self) = FxGroup_beam_count(other)
    /\ FxGroup_beam_names(self) = FxGroup_beam_names(other)
    /\ FloatListEq(FxGroup_beam_mu(self), FxGroup_beam_mu(other))
    /\ FloatEq(FxGroup_fx_mu(self), FxGroup_fx_mu(other))
    /\ FxGroup_cp_counts(self) = FxGroup_cp_counts(other)
    /\ FloatEq(FxGroup_younge_complexity_score(self),
               FxGroup_younge_complexity_score(other))

\* line 410: status_str with "failed" or "passed" filled in
StatusStr(self, other, i, status) ==
    "beam " \o FxGroup_beam_names(self)[i] \o "\n\t" \o status
    \o " with other beam " \o FxGroup_beam_names(other)[i]

\* lines 409-419 for beam i (counted from 1), given the outcome of its
\* comparison
RECURSIVE CompareBeamsFrom(_, _, _, _)
BeamCompared(self, other, i, printed, outcome) ==
    IF IsRaised(outcome.out) THEN Outcome(outcome.out, printed \o outcome.printed)
    ELSE IF outcome.out = Return(FALSE)
    THEN Outcome(Return(FALSE),
                 printed \o outcome.printed \o <<StatusStr(self, other, i, "failed")>>)
    ELSE CompareBeamsFrom(self, other, i + 1,
            printed \o outcome.printed \o <<StatusStr(self, other, i, "passed")>>)

\* the loop of lines 409-419
CompareBeamsFrom(self, other, i, printed) ==
    IF i > Len(self.beam) THEN Outcome(Return(TRUE), printed)
    ELSE BeamCompared(self, other, i, printed, Beam_eq(self.beam[i], other.beam[i]))

\* FxGroup.__eq__
FxGroup_eq(self, other) ==
    IF ~FxGroupAttrsEqual(self, other) THEN Outcome(Return(FALSE), <<>>)
    ELSE CompareBeamsFrom(self, other, 1, <<>>)

\* lines 254-263: the six identity properties of two plans are all equal
PlanAttrsEqual(self, other) ==
    /\ Plan_plan_name(self) = Plan_plan_name(other)
    /\ Plan_patient_name(self) = Plan_patient_name(other)
    /\ Plan_patient_id(self) = Plan_patient_id(other)
    /\ Plan_study_instance_uid(self) = Plan_study_instance_uid(other)
    /\ Plan_sop_instance_uid(self) = Plan_sop_instance_uid(other)
    /\ Plan_tps(self) = Plan_tps(other)

\* lines 265-267 for fraction group i (counted from 1), given the outcome of
\* its comparison
RECURSIVE CompareFxGroupsFrom(_, _, _, _)
FxGroupCompared(self, other, i, printed, outcome) ==
    IF IsRaised(outcome.out) \/ outcome.out = Return(FALSE)
    THEN Outcome(outcome.out, printed \o outcome.printed)
    ELSE CompareFxGroupsFrom(self, other, i + 1, printed \o outcome.printed)

\* the loop of lines 265-267; other.fx_group[i] raises IndexError when the
\* other plan has fewer fraction groups
CompareFxGroupsFrom(self, other, i, printed) ==
    IF i > Len(self.fx_group) THEN Outcome(Return(TRUE), printed)
    ELSE IF i > Len(other.fx_group) THEN Outcome(Raise("IndexError"), printed)
    ELSE FxGroupCompared(self, other, i, printed,
            FxGroup_eq(self.fx_group[i], other.fx_group[i]))

\* Plan.__eq__
Plan_eq(self, other) ==
    IF ~PlanAttrsEqual(self, other) THEN Outcome(Return(FALSE), <<>>)
    ELSE CompareFxGroupsFrom(self, other, 1, <<>>)

-----------------------------------------------------------------------------
(* class PlanSet *)

\* the rows PlanSet appends for one plan: ",".join(row) per summary row
PlanRows(plan) ==
    [f \in 1..Len(plan.summary) |->
        Join(",", [c \in 1..Len(COLUMNS) |-> plan.summary[f][COLUMNS[c]]])]

\* WorkerData that keeps the last row of the plan only
WorkerData_last_row(plan) ==
    IF IsRaised(plan) THEN <<>>
    ELSE IF PlanRows(plan) = <<>> THEN <<>>
    ELSE <<PlanRows(plan)[Len(PlanRows(plan))]>>

\* the list data of PlanSet._worker after the try statement
WorkerData(plan) == IF IsRaised(plan) THEN <<>> ELSE PlanRows(plan)

\* PlanSet._worker
PlanSet_worker(file_path, kwargs, files) ==
    WorkerData(Plan_init([path |-> file_path], kwargs, files))

\* the first line of the summary table, line 99
Header == Join(",", COLUMNS)

\* the try statement of PlanSet._run with a summary table that starts again
\* from the header when a plan fails
TableAfter_reset(table, plan) ==
    IF IsRaised(plan) THEN <<table[1]>> ELSE table \o PlanRows(plan)

\* self.summary_table after the try statement of PlanSet._run, lines 118-127
TableAfter(table, plan) ==
    IF IsRaised(plan) THEN table ELSE table \o PlanRows(plan)

\* what the try statement of PlanSet._run prints, lines 124-127
Printed(plan, verbose) ==
    IF IsRaised(plan) THEN <<"Analysis failed\n" \o plan.raised \o "\n">>
    ELSE IF verbose THEN <<Plan_str(plan) \o " \n">>
    ELSE <<>>

\* the line PlanSet._run prints before it analyses file i of the list
Analyzing(i, paths) ==
    "Analyzing (" \o str(i) \o " of " \o str(Len(paths)) \o "): " \o paths[i]

\* the local variable plan after an attempt to construct a plan
PlanAfter(old, plan) == IF IsRaised(plan) THEN old ELSE plan

\* lines 109-110 with the rows of the workers' lists taken in turn, one row
\* of each list at a time
RECURSIVE Extended_interleaved(_, _)
Extended_interleaved(table, rows) ==
    IF \A k \in 1..Len(rows) : rows[k] = <<>> THEN table
    ELSE Extended_interleaved(
            table \o flatten([k \in 1..Len(rows) |->
                                IF rows[k] = <<>> THEN <<>> ELSE <<rows[k][1]>>]),
            [k \in 1..Len(rows) |-> IF rows[k] = <<>> THEN <<>> ELSE Tail(rows[k])])

\* lines 109-110: for row in data: self.summary_table.extend(row)
Extended(table, rows) == table \o flatten(rows)

\* PlanSet.csv
PlanSet_csv(table) == Join("\n", table)

-----------------------------------------------------------------------------
(* Input records.  Lengths are in mm, as in DICOM. *)

MaxCP == 2          \* control points per beam (Beam specification)

WeightSteps == 2    \* cumulative meterset weights are k / WeightSteps

Device(type, positions) ==
    [RTBeamLimitingDeviceType |-> type, LeafJawPositions |-> positions]

Jaws50 == <<Device("ASYMX", <<-50, 50>>), Device("ASYMY", <<-50, 50>>)>>

\* the beam limiting device position sequences a control point may carry:
\* none recorded, jaws only, jaws and two open leaf pairs, two closed leaf
\* pairs without jaws (an aperture of area 0)
DevicePositionSequences ==
    {<<>>,
     Jaws50,
     Jaws50 \o <<Device("MLCX", <<-20, -10, 20, 10>>)>>,
     <<Device("MLCX", <<0, 0, 0, 0>>)>>}

Weights == {Norm(k, WeightSteps) : k \in 0..WeightSteps}

\* the gantry, collimator and couch angle tags, carried together
Angles == [GantryAngle |-> 180, BeamLimitingDeviceAngle |-> 0, PatientSupportAngle |-> 0]

\* control point records: the position sequence tag and the angle tags are
\* optional
ControlPointElems ==
    {[CumulativeMetersetWeight |-> w] @@ a @@ d :
        w \in Weights,
        a \in {<<>>, Angles},
        d \in {<<>>} \cup {[BeamLimitingDevicePositionSequence |-> p] :
                              p \in DevicePositionSequences \ {<<>>}}}

\* the cumulative meterset weight never decreases along a beam
NonDecreasing(cp_seq) ==
    \A i \in 1..(Len(cp_seq) - 1) :
        ~RLess(cp_seq[i + 1].CumulativeMetersetWeight, cp_seq[i].CumulativeMetersetWeight)

ControlPointSequences(n) ==
    UNION {{cp_seq \in [1..m -> ControlPointElems] : NonDecreasing(cp_seq)} : m \in 0..n}

LimitingDevices ==
    <<[RTBeamLimitingDeviceType |-> "ASYMX"],
      [RTBeamLimitingDeviceType |-> "MLCX", LeafPositionBoundaries |-> <<-10, 0, 10>>]>>

BeamDataset(number, cp_seq) ==
    [BeamNumber |-> number, BeamName |-> "beam " \o str(number),
     BeamLimitingDeviceSequence |-> LimitingDevices,
     ControlPointSequence |-> cp_seq]

MeterSets == {0, 10}

BeamKwargs == {<<>>, [complexity_weight_x |-> R(2)]}

BeamInputs ==
    {[call |-> "Beam", beam_dataset |-> BeamDataset(1, cp_seq), meter_set |-> R(m),
      ignore_zero_mu_cp |-> flag, kwargs |-> kw] :
        cp_seq \in ControlPointSequences(MaxCP), m \in MeterSets,
        flag \in BOOLEAN, kw \in BeamKwargs}

-----------------------------------------------------------------------------
(* Specification of Beam construction: Beam(beam_dataset, meter_set,      *)
(* ignore_zero_mu_cp, **kwargs)                                           *)

BatchIdle ==
    /\ file_paths = <<>>
    /\ processes = 1
    /\ summary_table = <<>>
    /\ pc = "idle"
    /\ idx = 0
    /\ pool = {}
    /\ data = <<>>
    /\ stdout = <<>>

InitBeam ==
    /\ input \in BeamInputs
    /\ result = Pending
    /\ BatchIdle

NewBeam ==
    /\ input.call = "Beam"
    /\ result = Pending
    /\ result' = Beam_init(input.beam_dataset, input.meter_set,
                           input.ignore_zero_mu_cp, input.kwargs)
    /\ UNCHANGED <<input, batch_vars>>

NextBeam == NewBeam

SpecBeam == InitBeam /\ [][NextBeam]_vars

-----------------------------------------------------------------------------
(* Specification of FxGroup construction: FxGroup(fx_grp_seq,             *)
(* plan_beam_sequences)                                                    *)

MaxBeams == 2        \* beams in the plan's beam sequence

MaxRefBeams == 2     \* entries of a group's referenced beam sequence

BeamNumbers == {1, 2, 3}

ControlPointElem(weight, positions) ==
    [CumulativeMetersetWeight |-> weight] @@ Angles
    @@ (IF positions = <<>> THEN <<>>
        ELSE [BeamLimitingDevicePositionSequence |-> positions])

OpenLeaves == <<Device("MLCX", <<-20, -10, 20, 10>>)>>

\* control point sequences of static-jaw beams (jaws recorded on the first
\* control point only), without and with leaves
JawControlPoints ==
    <<ControlPointElem(R(0), Jaws50), ControlPointElem(R(1), <<>>)>>

LeafControlPoints ==
    <<ControlPointElem(R(0), Jaws50 \o OpenLeaves),
      ControlPointElem(<<1, 2>>, OpenLeaves),
      ControlPointElem(R(1), OpenLeaves)>>

FxBeamDatasets ==
    {BeamDataset(1, JawControlPoints), BeamDataset(2, LeafControlPoints),
     BeamDataset(3, JawControlPoints)}

FxMeterSets == {10, 20}

ReferencedBeams ==
    {[ReferencedBeamNumber |-> number, BeamMeterset |-> m] :
        number \in BeamNumbers, m \in FxMeterSets}

SeqsUpTo(S, n) == UNION {[1..m -> S] : m \in 0..n}

FxGroupDatasets ==
    {[ReferencedBeamSequence |-> refs] @@ fractions :
        refs \in SeqsUpTo(ReferencedBeams, MaxRefBeams),
        fractions \in {<<>>, [NumberOfFractionsPlanned |-> 26]}}

FxGroupInputs ==
    {[call |-> "FxGroup", fx_grp_seq |-> fx, plan_beam_sequences |-> beams] :
        fx \in FxGroupDatasets, beams \in SeqsUpTo(FxBeamDatasets, MaxBeams)}

InitFxGroup ==
    /\ input \in FxGroupInputs
    /\ result = Pending
    /\ BatchIdle

NewFxGroup ==
    /\ input.call = "FxGroup"
    /\ result = Pending
    /\ result' = FxGroup_init(input.fx_grp_seq, input.plan_beam_sequences, <<>>)
    /\ UNCHANGED <<input, batch_vars>>

\* a second call of update_missing_jaws on the constructed group; input.self
\* keeps the group as it was when the call was made
UpdateMissingJawsAgain ==
    /\ input.call = "FxGroup"
    /\ result # Pending
    /\ ~IsRaised(result)
    /\ input' = [call |-> "FxGroup.update_missing_jaws", self |-> result]
    /\ result' = FxGroup_update_missing_jaws(result)
    /\ UNCHANGED batch_vars

NextFxGroup == NewFxGroup \/ UpdateMissingJawsAgain

SpecFxGroup == InitFxGroup /\ [][NextFxGroup]_vars

-----------------------------------------------------------------------------
(* Specification of PlanSet construction: PlanSet(file_paths, verbose,    *)
(* processes)                                                              *)

MaxFiles == 2        \* length of file_paths

MaxProcesses == 2    \* processes is 1..MaxProcesses

Ref(number, m) == [ReferencedBeamNumber |-> number, BeamMeterset |-> m]

PlanBeams == <<BeamDataset(1, JawControlPoints), BeamDataset(2, LeafControlPoints)>>

Identity(label) ==
    [PatientName |-> "Doe^J", PatientID |-> "123", StudyInstanceUID |-> "1.2",
     SOPInstanceUID |-> "1.2." \o label, Manufacturer |-> "TPS",
     ManufacturerModelName |-> "X", RTPlanLabel |-> label]

\* the files on disk: plans of one, two and three fraction groups, a plan
\* with a beam of meter set 0, a DICOM file that is no plan and a text file
Files ==
    ("one.dcm" :>
        (Identity("one")
         @@ [BeamSequence |-> PlanBeams,
             FractionGroupSequence |->
                <<[NumberOfFractionsPlanned |-> 26,
                   ReferencedBeamSequence |-> <<Ref(1, 10), Ref(2, 20)>>]>>]))
    @@ ("two.dcm" :>
        [RTPlanLabel |-> "two", BeamSequence |-> PlanBeams,
         FractionGroupSequence |->
            <<[NumberOfFractionsPlanned |-> 10,
               ReferencedBeamSequence |-> <<Ref(1, 10)>>],
              [ReferencedBeamSequence |-> <<Ref(2, 20), Ref(1, 20)>>]>>])
    @@ ("three.dcm" :>
        (Identity("three")
         @@ [BeamSequence |-> PlanBeams,
             FractionGroupSequence |->
                <<[NumberOfFractionsPlanned |-> 5,
                   ReferencedBeamSequence |-> <<Ref(2, 10)>>],
                  [NumberOfFractionsPlanned |-> 5, ReferencedBeamSequence |-> <<>>],
                  [NumberOfFractionsPlanned |-> 3,
                   ReferencedBeamSequence |-> <<Ref(1, 20)>>]>>]))
    @@ ("zero_mu.dcm" :>
        (Identity("zero")
         @@ [BeamSequence |-> PlanBeams,
             FractionGroupSequence |->
                <<[ReferencedBeamSequence |-> <<Ref(1, 10)>>],
                  [ReferencedBeamSequence |-> <<Ref(2, 0)>>]>>]))
    @@ ("ct.dcm" :> Identity("ct"))
    @@ ("notes.txt" :> Raise("InvalidDicomError"))

Paths == DOMAIN Files

PlanSetInputs ==
    {[call |-> "PlanSet", verbose |-> v, kwargs |-> <<>>] : v \in BOOLEAN}

\* PlanSet.__init__, lines 95-99, and the choice of line 101
InitPlanSet ==
    /\ input \in PlanSetInputs
    /\ result = Pending
    /\ file_paths \in SeqsUpTo(Paths, MaxFiles)
    /\ processes \in 1..MaxProcesses
    /\ summary_table = <<Header>>
    /\ pc = (IF processes = 1 THEN "run" ELSE "pool")
    /\ idx = 0
    /\ pool = {}
    /\ data = <<>>
    /\ stdout = <<>>

\* one pass of the loop of PlanSet._run over the plan of the next file
RunFile(plan) ==
    /\ result' = PlanAfter(result, plan)
    /\ summary_table' = TableAfter(summary_table, plan)
    /\ stdout' = stdout \o <<Analyzing(idx + 1, file_paths)>>
                        \o Printed(plan, input.verbose)

Run ==
    /\ pc = "run"
    /\ idx < Len(file_paths)
    /\ RunFile(Plan_init([path |-> file_paths[idx + 1]], input.kwargs, Files))
    /\ idx' = idx + 1
    /\ UNCHANGED <<input, file_paths, processes, pc, pool, data>>

\* PlanSet._run returns when the list is exhausted
RunReturn ==
    /\ pc = "run"
    /\ idx = Len(file_paths)
    /\ pc' = "done"
    /\ UNCHANGED <<input, result, file_paths, processes, summary_table, idx, pool,
                   data, stdout>>

Prefixes(rows) == {SubSeq(rows, 1, m) : m \in 0..Len(rows)}

\* a KeyboardInterrupt after the next plan was constructed, while its rows
\* are appended
InterruptedAppend(plan) ==
    /\ ~IsRaised(plan)
    /\ result' = plan
    /\ \E partial \in Prefixes(PlanRows(plan)) :
          summary_table' = summary_table \o partial
    /\ stdout' = stdout \o <<Analyzing(idx + 1, file_paths), "Plan analyzer halted!">>

\* the handler of lines 102-105: a KeyboardInterrupt ends PlanSet._run
\* between two files, within the construction of a plan, or between two
\* appended rows
Interrupt ==
    /\ pc = "run"
    /\ pc' = "halted"
    /\ \/ /\ stdout' = stdout \o <<"Plan analyzer halted!">>
          /\ UNCHANGED <<result, summary_table>>
       \/ /\ idx < Len(file_paths)
          /\ stdout' = stdout \o <<Analyzing(idx + 1, file_paths), "Plan analyzer halted!">>
          /\ UNCHANGED <<result, summary_table>>
       \/ /\ idx < Len(file_paths)
          /\ InterruptedAppend(Plan_init([path |-> file_paths[idx + 1]], input.kwargs, Files))
    /\ UNCHANGED <<input, file_paths, processes, idx, pool, data>>

\* run_multiprocessing: a free worker of the pool takes the next file
Dispatch ==
    /\ pc = "pool"
    /\ idx < Len(file_paths)
    /\ Cardinality(pool) < processes
    /\ pool' = pool \cup {idx + 1}
    /\ idx' = idx + 1
    /\ UNCHANGED <<input, result, file_paths, processes, summary_table, pc, data, stdout>>

\* a worker finishes PlanSet._worker for file k; imap_unordered hands its
\* list to the loop of run_multiprocessing, which appends it to data
Complete(k) ==
    /\ pc = "pool"
    /\ k \in pool
    /\ result' = PlanAfter(result, Plan_init([path |-> file_paths[k]], input.kwargs, Files))
    /\ data' = Append(data, PlanSet_worker(file_paths[k], input.kwargs, Files))
    /\ pool' = pool \ {k}
    /\ UNCHANGED <<input, file_paths, processes, summary_table, pc, idx, stdout>>

\* lines 109-110, once run_multiprocessing has returned
Collect ==
    /\ pc = "pool"
    /\ idx = Len(file_paths)
    /\ pool = {}
    /\ summary_table' = Extended(summary_table, data)
    /\ pc' = "done"
    /\ UNCHANGED <<input, result, file_paths, processes, idx, pool, data, stdout>>

NextPlanSet ==
    \/ Run
    \/ RunReturn
    \/ Interrupt
    \/ Dispatch
    \/ \E k \in 1..MaxFiles : Complete(k)
    \/ Collect

SpecPlanSet == InitPlanSet /\ [][NextPlanSet]_vars

-----------------------------------------------------------------------------
(* Specification of the command line pipeline: main() of mlca/main.py with *)
(* its own class PlanSet, called with a directory and without --verbose    *)

version == "0.2.2"

\* the Modality of a file that pydicom can read: the files that carry a beam
\* sequence are the RT plans
Modality(ds) == IF hasattr(ds, "BeamSequence") THEN "RTPLAN" ELSE "CT"

\* main.get_file_paths: what it prints for the files of a directory, in
\* the order of os.walk
RECURSIVE SearchPrinted(_, _)
SearchPrinted(directory, files) ==
    IF directory = <<>> THEN <<>>
    ELSE (IF IsRaised(read_file(directory[1], files))
          THEN <<"Non-DICOM-RT File Found, skipping analysis: " \o directory[1]>>
          ELSE <<>>)
         \o SearchPrinted(Tail(directory), files)

\* main.get_file_paths: the list it returns
RECURSIVE SearchFound(_, _)
SearchFound(directory, files) ==
    IF directory = <<>> THEN <<>>
    ELSE (IF ~IsRaised(read_file(directory[1], files))
             /\ Modality(read_file(directory[1], files)) = "RTPLAN"
          THEN <<directory[1]>> ELSE <<>>)
         \o SearchFound(Tail(directory), files)

\* main.py lines 34-38: the summary table of the plans
MainTable(plans) == <<Header>> \o flatten([k \in 1..Len(plans) |-> PlanRows(plans[k])])

\* the name of the file main() writes
OutputFile(args) ==
    IF args.output_file # "None" THEN args.output_file
    ELSE "dvha_mlca_" \o version \o "_results_" \o args.time_stamp \o ".csv"

\* the directories: up to MaxFiles different files
Directories ==
    {directory \in SeqsUpTo(Paths, MaxFiles) :
        \A i, j \in 1..Len(directory) : i # j => directory[i] # directory[j]}

MainInputs ==
    {[call |-> "main", init_dir |-> "plans", directory |-> directory,
      print_version |-> flag, output_file |-> name,
      time_stamp |-> "2021-01-01 00-00-00-000000"] :
        directory \in Directories, flag \in BOOLEAN, name \in {"None", "out.csv"}}

InitMain ==
    /\ input \in MainInputs
    /\ result = Pending
    /\ file_paths = <<>>
    /\ processes = 1
    /\ summary_table = <<>>
    /\ pc = "main"
    /\ idx = 0
    /\ pool = {}
    /\ data = <<>>
    /\ stdout = <<>>

\* main.py lines 102-107: the version, then get_file_paths(args.init_dir)
MainSearch ==
    /\ input.call = "main"
    /\ pc = "main"
    /\ stdout' = (IF input.print_version
                  THEN <<"DVHA MLC Analyzer: dvha-mlca v" \o version>> ELSE <<>>)
                 \o <<"Finding DICOM-RT Plans in " \o input.init_dir \o " ...">>
                 \o SearchPrinted(input.directory, Files)
                 \o <<"DICOM-RT Plan search complete">>
    /\ file_paths' = SearchFound(input.directory, Files)
    /\ pc' = "plans"
    /\ UNCHANGED <<input, result, processes, summary_table, idx, pool, data>>

\* one pass of the loop of main.PlanSet.__init__, lines 28-32: an exception
\* of Plan() leaves the constructor and main()
MainPlanOf(plan) ==
    /\ stdout' = Append(stdout, Analyzing(idx + 1, file_paths))
    /\ IF IsRaised(plan)
       THEN /\ result' = plan
            /\ pc' = "raised"
            /\ UNCHANGED <<idx, data>>
       ELSE /\ data' = Append(data, plan)
            /\ idx' = idx + 1
            /\ UNCHANGED <<result, pc>>

MainPlan ==
    /\ input.call = "main"
    /\ pc = "plans"
    /\ idx < Len(file_paths)
    /\ MainPlanOf(Plan_init([path |-> file_paths[idx + 1]], DEFAULT_OPTIONS, Files))
    /\ UNCHANGED <<input, file_paths, processes, summary_table, pool>>

\* main.py lines 34-38 and 114-119: the table is built and written
MainWrite ==
    /\ input.call = "main"
    /\ pc = "plans"
    /\ idx = Len(file_paths)
    /\ summary_table' = MainTable(data)
    /\ result' = [output_file |-> OutputFile(input),
                  written |-> PlanSet_csv(MainTable(data))]
    /\ pc' = "done"
    /\ UNCHANGED <<input, file_paths, processes, idx, pool, data, stdout>>

NextMain == MainSearch \/ MainPlan \/ MainWrite

SpecMain == InitMain /\ [][NextMain]_vars

-----------------------------------------------------------------------------
(* Specification of ControlPoint comparison: a == b *)

\* cumulative meterset weights 0, half the tolerance, the tolerance, 1/2
EqWeights == {R(0), <<1, 200000>>, CONTROL_POINT_MU_TOLERANCE, <<1, 2>>}

\* two leaf pairs, the same with one leaf of bank A or of bank B moved by
\* 1 mm, no leaves at all, and one leaf pair
EqPositionSequences ==
    {Jaws50 \o <<Device("MLCX", <<-20, -10, 20, 10>>)>>,
     Jaws50 \o <<Device("MLCX", <<-19, -10, 20, 10>>)>>,
     Jaws50 \o <<Device("MLCX", <<-20, -10, 20, 11>>)>>,
     Jaws50,
     Jaws50 \o <<Device("MLCX", <<-20, 20>>)>>}

EqControlPoints ==
    {ControlPoint_init(ControlPointElem(w, p), <<-10, 0, 10>>, <<>>) :
        w \in EqWeights, p \in EqPositionSequences}

InitEqControlPoint ==
    /\ input \in {[call |-> "ControlPoint.__eq__", self |-> a, other |-> b] :
                    a \in EqControlPoints, b \in EqControlPoints}
    /\ result = Pending
    /\ BatchIdle

\* result is what the comparison returned, stdout what it printed
Compared(outcome) ==
    /\ result' = outcome.out
    /\ stdout' = stdout \o outcome.printed

CompareControlPoints ==
    /\ input.call = "ControlPoint.__eq__"
    /\ result = Pending
    /\ Compared(ControlPoint_eq(input.self, input.other))
    /\ UNCHANGED <<input, file_paths, processes, summary_table, pc, idx, pool, data>>

NextEqControlPoint == CompareControlPoints

SpecEqControlPoint == InitEqControlPoint /\ [][NextEqControlPoint]_vars

-----------------------------------------------------------------------------
(* Specification of Beam comparison: a == b *)

\* the leaf sequence with every leaf moved by 1 mm
ShiftedLeaves == <<Device("MLCX", <<-19, -9, 21, 11>>)>>

ShiftedControlPoints ==
    <<ControlPointElem(R(0), Jaws50 \o ShiftedLeaves),
      ControlPointElem(<<1, 2>>, ShiftedLeaves),
      ControlPointElem(R(1), ShiftedLeaves)>>

\* leaves recorded on two control points only
ShortControlPoints ==
    <<ControlPointElem(R(0), Jaws50 \o OpenLeaves),
      ControlPointElem(R(1), OpenLeaves)>>

\* the first two of the three control points of LeafControlPoints
PrefixControlPoints == SubSeq(LeafControlPoints, 1, 2)

EqControlPointSequences ==
    {LeafControlPoints, ShiftedControlPoints, ShortControlPoints, JawControlPoints,
     PrefixControlPoints}

\* meter sets 10, 10 + half the tolerance, 10 + the tolerance, 11
EqMeterSets == {R(10), <<20001, 2000>>, <<10001, 1000>>, R(11)}

EqBeams ==
    {Beam_init(BeamDataset(1, cp_seq), m, FALSE, <<>>) :
        cp_seq \in EqControlPointSequences, m \in EqMeterSets}

InitEqBeam ==
    /\ input \in {[call |-> "Beam.__eq__", self |-> a, other |-> b] :
                    a \in EqBeams, b \in EqBeams}
    /\ result = Pending
    /\ BatchIdle

CompareBeams ==
    /\ input.call = "Beam.__eq__"
    /\ result = Pending
    /\ Compared(Beam_eq(input.self, input.other))
    /\ UNCHANGED <<input, file_paths, processes, summary_table, pc, idx, pool, data>>

NextEqBeam == CompareBeams

SpecEqBeam == InitEqBeam /\ [][NextEqBeam]_vars

-----------------------------------------------------------------------------
(* Specification of Plan comparison: a == b *)

\* leaves closed on the second of three control points
ClosedControlPoints ==
    <<ControlPointElem(R(0), Jaws50 \o OpenLeaves),
      ControlPointElem(<<1, 2>>, <<Device("MLCX", <<0, 0, 0, 0>>)>>),
      ControlPointElem(R(1), OpenLeaves)>>

PlanDataset(identity, beams, groups) ==
    identity @@ [BeamSequence |-> beams, FractionGroupSequence |-> groups]

Group(refs) == [NumberOfFractionsPlanned |-> 26, ReferencedBeamSequence |-> refs]

\* a plan of one leaf beam in one fraction group; the same with another
\* patient name, another manufacturer, without identity tags, with every
\* leaf moved by 1 mm, with another meter set, with a second fraction group,
\* with a beam that has no leaves, and with a beam that closes its leaves
EqPlanDatasets ==
    {PlanDataset(Identity("one"), <<BeamDataset(2, LeafControlPoints)>>,
                 <<Group(<<Ref(2, 20)>>)>>),
     PlanDataset([PatientName |-> "Roe^R"] @@ Identity("one"),
                 <<BeamDataset(2, LeafControlPoints)>>, <<Group(<<Ref(2, 20)>>)>>),
     PlanDataset([Manufacturer |-> "Other"] @@ Identity("one"),
                 <<BeamDataset(2, LeafControlPoints)>>, <<Group(<<Ref(2, 20)>>)>>),
     PlanDataset(<<>>, <<BeamDataset(2, LeafControlPoints)>>, <<Group(<<Ref(2, 20)>>)>>),
     PlanDataset(Identity("one"), <<BeamDataset(2, ShiftedControlPoints)>>,
                 <<Group(<<Ref(2, 20)>>)>>),
     PlanDataset(Identity("one"), <<BeamDataset(2, LeafControlPoints)>>,
                 <<Group(<<Ref(2, 21)>>)>>),
     PlanDataset(Identity("one"), <<BeamDataset(2, LeafControlPoints)>>,
                 <<Group(<<Ref(2, 20)>>), Group(<<Ref(2, 10)>>)>>),
     PlanDataset(Identity("one"),
                 <<BeamDataset(1, JawControlPoints), BeamDataset(2, LeafControlPoints)>>,
                 <<Group(<<Ref(1, 10), Ref(2, 20)>>)>>),
     PlanDataset(Identity("one"), <<BeamDataset(2, ClosedControlPoints)>>,
                 <<Group(<<Ref(2, 20)>>)>>),
     PlanDataset(Identity("one"), <<BeamDataset(2, ShortControlPoints)>>,
                 <<Group(<<Ref(2, 20)>>)>>)}

EqPlans == {Plan_init(rt_plan, <<>>, Files) : rt_plan \in EqPlanDatasets}

InitEqPlan ==
    /\ input \in {[call |-> "Plan.__eq__", self |-> a, other |-> b] :
                    a \in EqPlans, b \in EqPlans}
    /\ result = Pending
    /\ BatchIdle

ComparePlans ==
    /\ input.call = "Plan.__eq__"
    /\ result = Pending
    /\ Compared(Plan_eq(input.self, input.other))
    /\ UNCHANGED <<input, file_paths, processes, summary_table, pc, idx, pool, data>>

NextEqPlan == ComparePlans

SpecEqPlan == InitEqPlan /\ [][NextEqPlan]_vars

-----------------------------------------------------------------------------
(* Specification of get_options(over_rides), followed by get_options({}) *)

OverrideKeys ==
    {"max_field_size_x", "max_field_size_y", "complexity_weight_x",
     "complexity_weight_y", "max_field_size_z"}

OverrideValues == {R(100), R(3)}

\* the dictionaries over any of the keys
OverRides == UNION {[keys -> OverrideValues] : keys \in SUBSET OverrideKeys}

InitOptions ==
    /\ input \in {[call |-> "get_options", over_rides |-> o] : o \in OverRides}
    /\ result = Pending
    /\ BatchIdle

GetOptions ==
    /\ input.call = "get_options"
    /\ result = Pending
    /\ result' = get_options(input.over_rides)
    /\ UNCHANGED <<input, batch_vars>>

\* a later call with no overrides
GetOptionsAgain ==
    /\ input.call = "get_options"
    /\ result # Pending
    /\ input.over_rides # <<>>
    /\ input' = [input EXCEPT !.over_rides = <<>>]
    /\ result' = get_options(<<>>)
    /\ UNCHANGED batch_vars

NextOptions == GetOptions \/ GetOptionsAgain

SpecOptions == InitOptions /\ [][NextOptions]_vars

-----------------------------------------------------------------------------
(* Specification of Plan construction: Plan(rt_plan, **kwargs) *)

\* a plan of one leaf beam, of one beam with jaws on its first control point
\* only, and of both beams in two fraction groups
OptionPlanDatasets ==
    {PlanDataset(Identity("one"), <<BeamDataset(2, LeafControlPoints)>>,
                 <<Group(<<Ref(2, 20)>>)>>),
     PlanDataset(Identity("one"), <<BeamDataset(1, JawControlPoints)>>,
                 <<Group(<<Ref(1, 10)>>)>>),
     PlanDataset(Identity("one"),
                 <<BeamDataset(1, JawControlPoints), BeamDataset(2, LeafControlPoints)>>,
                 <<Group(<<Ref(1, 10)>>), Group(<<Ref(1, 10), Ref(2, 20)>>)>>)}

\* keyword arguments over any of the recognized options
PlanKwargs ==
    UNION {[keys -> {R(2), R(100)}] :
              keys \in SUBSET {"max_field_size_x", "max_field_size_y",
                               "complexity_weight_x", "complexity_weight_y"}}

InitPlan ==
    /\ input \in {[call |-> "Plan", rt_plan |-> rt_plan, kwargs |-> kwargs] :
                    rt_plan \in OptionPlanDatasets, kwargs \in PlanKwargs}
    /\ result = Pending
    /\ BatchIdle

NewPlan ==
    /\ input.call = "Plan"
    /\ result = Pending
    /\ result' = Plan_init(input.rt_plan, input.kwargs, Files)
    /\ UNCHANGED <<input, batch_vars>>

NextPlan == NewPlan

SpecPlan == InitPlan /\ [][NextPlan]_vars

-----------------------------------------------------------------------------
(* Specification of ControlPoint construction: ControlPoint(cp_elem,       *)
(* leaf_boundaries, **kwargs)                                              *)

MaxDevices == 2     \* records of a position sequence (ControlPoint specification)

\* device records: jaws in either spelling and order, leaves, types that are
\* no jaw or leaf device, and records that lack one of the two tags
DeviceRecords ==
    {Device("ASYMX", <<-50, 50>>), Device("asymx", <<40, -40>>),
     Device("ASYMY", <<-30, 30>>),
     Device("MLCX", <<-20, -10, 20, 10>>), Device("Mlcx", <<-10, -10, 20, 20>>),
     Device("WEDGE", <<-5, 5>>), Device("MLC", <<-5, 5>>),
     Device("OPTIONS", <<-5, 5>>),
     [RTBeamLimitingDeviceType |-> "ASYMY"],
     [LeafJawPositions |-> <<-5, 5>>]}

ControlPointKwargs ==
    {<<>>, [max_field_size_x |-> R(100)], [max_field_size_y |-> R(30)]}

ControlPointInputs ==
    {[call |-> "ControlPoint", cp_elem |-> ControlPointElem(R(0), p),
      leaf_boundaries |-> <<-10, 0, 10>>, kwargs |-> kw] :
        p \in SeqsUpTo(DeviceRecords, MaxDevices), kw \in ControlPointKwargs}

InitControlPoint ==
    /\ input \in ControlPointInputs
    /\ result = Pending
    /\ BatchIdle

NewControlPoint ==
    /\ input.call = "ControlPoint"
    /\ result = Pending
    /\ result' = ControlPoint_init(input.cp_elem, input.leaf_boundaries, input.kwargs)
    /\ UNCHANGED <<input, batch_vars>>

NextControlPoint == NewControlPoint

SpecControlPoint == InitControlPoint /\ [][NextControlPoint]_vars

-----------------------------------------------------------------------------
(* Specification of get_xy_path_lengths(shapely_object) *)

Sides == {1, 2, 3}

Origins == {<<0, 0>>, <<-1, 2>>}

\* Polygon([[x, y], [x + w, y], [x + w, y + h], [x, y + h]])
Rectangle(o, w, h) ==
    Polygon(CloseRing(<<<<R(o[1]), R(o[2])>>, <<R(o[1] + w), R(o[2])>>,
                        <<R(o[1] + w), R(o[2] + h)>>, <<R(o[1]), R(o[2] + h)>>>>))

Rectangles == {Rectangle(o, w, h) : o \in Origins, w \in Sides, h \in Sides}

\* a triangle with a slanted edge and an L-shaped hexagon
OtherPolygons ==
    {Polygon(CloseRing(<<<<R(0), R(0)>>, <<R(2), R(0)>>, <<R(0), R(3)>>>>)),
     Polygon(CloseRing(<<<<R(0), R(0)>>, <<R(2), R(0)>>, <<R(2), R(1)>>,
                         <<R(1), R(1)>>, <<R(1), R(2)>>, <<R(0), R(2)>>>>)),
     Polygon(<<>>)}

\* the polygons that appear as members of larger shapes
MemberPolygons ==
    {Rectangle(<<0, 0>>, 1, 2), Rectangle(<<-1, 2>>, 3, 1)} \cup OtherPolygons

MultiPolygons == {MultiPolygon(<<a, b>>) : a \in MemberPolygons, b \in MemberPolygons}

\* members that are no polygons
OtherGeometries ==
    {[type |-> "Point", coords |-> <<<<R(1), R(1)>>>>],
     [type |-> "LineString", coords |-> <<<<R(0), R(0)>>, <<R(2), R(3)>>>>]}

CollectionMembers ==
    MemberPolygons \cup OtherGeometries
    \cup {MultiPolygon(<<a, a>>) : a \in {Rectangle(<<0, 0>>, 1, 2)}}
    \cup {GeometryCollection(<<>>), GeometryCollection(<<Rectangle(<<0, 0>>, 1, 2)>>)}

GeometryCollections ==
    {GeometryCollection(members) : members \in SeqsUpTo(CollectionMembers, 2)}

ShapelyObjects ==
    Rectangles \cup OtherPolygons \cup MultiPolygons \cup GeometryCollections

InitPathLengths ==
    /\ input \in {[call |-> "get_xy_path_lengths", shapely_object |-> shape] :
                    shape \in ShapelyObjects}
    /\ result = Pending
    /\ BatchIdle

GetPathLengths ==
    /\ input.call = "get_xy_path_lengths"
    /\ result = Pending
    /\ result' = Return(get_xy_path_lengths(input.shapely_object))
    /\ UNCHANGED <<input, batch_vars>>

NextPathLengths == GetPathLengths

SpecPathLengths == InitPathLengths /\ [][NextPathLengths]_vars

-----------------------------------------------------------------------------
(* Specification of flatten_list_of_lists(some_list, remove_duplicates,    *)
(* sort)                                                                   *)

FlattenValues == {1, 3, 8}

FlattenInputs ==
    {[call |-> "flatten_list_of_lists", some_list |-> some_list,
      remove_duplicates |-> remove_duplicates, sort |-> sort] :
        some_list \in SeqsUpTo(SeqsUpTo(FlattenValues, 2), 2),
        remove_duplicates \in BOOLEAN, sort \in BOOLEAN}

InitFlatten ==
    /\ input \in FlattenInputs
    /\ result = Pending
    /\ BatchIdle

Flatten ==
    /\ input.call = "flatten_list_of_lists"
    /\ result = Pending
    /\ \E returned \in flatten_list_of_lists(input.some_list, input.remove_duplicates,
                                             input.sort) :
          result' = Return(returned)
    /\ UNCHANGED <<input, batch_vars>>

NextFlatten == Flatten

SpecFlatten == InitFlatten /\ [][NextFlatten]_vars

-----------------------------------------------------------------------------
(* Properties of Beam construction *)

BeamBuilt == input.call = "Beam" /\ result # Pending /\ ~IsRaised(result)

\* the MU delta of control point i as the specification states it
MuDelta(beam, i) ==
    IF i < Len(beam.control_point)
    THEN RSub(RMul(beam.control_point[i + 1].cp_elem.CumulativeMetersetWeight, beam.meter_set),
              RMul(beam.control_point[i].cp_elem.CumulativeMetersetWeight, beam.meter_set))
    ELSE R(0)

\* score * area * meter_set = (Cx * perimeter_x + Cy * perimeter_y) * MU delta
\* at control point i, perimeters and area taken from the aperture; where
\* the area is 0 the quotient is not a finite number
ScoreMatches(beam, i) ==
    LET cp == beam.control_point[i]
        path == get_xy_path_lengths(ControlPoint_aperture(cp))
        area == ShapeArea(ControlPoint_aperture(cp))
        score == Beam_younge_complexity_scores(beam).tolist[i]
    IN  IF area = R(0) THEN ~IsFinite(score)
        ELSE RMul(RMul(score, area), beam.meter_set)
             = RMul(RAdd(RMul(beam.options.complexity_weight_x, path[1]),
                         RMul(beam.options.complexity_weight_y, path[2])),
                    MuDelta(beam, i))

\* C1: for every Beam with meter_set > 0 and every control point index i,
\* younge_complexity_scores[i] is ((Cx * perimeter_x[i] + Cy * perimeter_y[i])
\* * cp_mu[i] / area[i]) / meter_set, with Cx, Cy the beam's weight options.
C1_YoungeFormula ==
    (BeamBuilt /\ RLess(R(0), result.meter_set)) =>
        /\ hasattr(Beam_younge_complexity_scores(result), "tolist")
        /\ Len(Beam_younge_complexity_scores(result).tolist) = Len(result.control_point)
        /\ \A i \in 1..Len(result.control_point) : ScoreMatches(result, i)

\* a beam with an overridden x weight and a control point of nonzero score
C1_Witness ==
    /\ BeamBuilt
    /\ RLess(R(0), result.meter_set)
    /\ result.options.complexity_weight_x = R(2)
    /\ \E i \in 1..Len(result.control_point) :
          /\ IsFinite(Beam_younge_complexity_scores(result).tolist[i])
          /\ Beam_younge_complexity_scores(result).tolist[i] # R(0)

\* C6: a beam whose meter set is 0 or negative is constructed without error,
\* its per-point complexity score is 0 and it adds 0 to a group's score.
C6_ZeroMeterSetScoresZero ==
    (input.call = "Beam" /\ result # Pending /\ ~RLess(R(0), input.meter_set)) =>
        /\ ~IsRaised(result)
        /\ NpSumOf(Beam_younge_complexity_scores(result)) = R(0)

\* C7: for a Beam with n >= 1 control points, cum_mu[i] is
\* control_point[i].cum_mu * meter_set, cp_mu has n entries, cp_mu[i] is
\* cum_mu[i+1] - cum_mu[i] for i < n, the last cp_mu is 0, and the sum of
\* cp_mu is cum_mu[n-1] - cum_mu[0].
C7_MuDeltas ==
    (BeamBuilt /\ Len(result.control_point) >= 1) =>
        LET n == Len(result.control_point)
            cum_mu == Beam_cum_mu(result)
            cp_mu == Beam_cp_mu(result)
        IN  /\ Len(cum_mu) = n
            /\ \A i \in 1..n :
                  cum_mu[i] = RMul(ControlPoint_cum_mu(result.control_point[i]),
                                   result.meter_set)
            /\ Len(cp_mu) = n
            /\ \A i \in 1..(n - 1) : cp_mu[i] = RSub(cum_mu[i + 1], cum_mu[i])
            /\ cp_mu[n] = R(0)
            /\ NpSum(cp_mu) = RSub(cum_mu[n], cum_mu[1])

\* a beam of at least two control points that delivers MU
C7_Witness ==
    /\ BeamBuilt
    /\ Len(result.control_point) >= 2
    /\ Beam_cp_mu(result)[1] # R(0)

\* the same beam built without the flag
Unfiltered == Beam_init(input.beam_dataset, input.meter_set, FALSE, input.kwargs)

SummaryKeys ==
    {"cp", "cum_mu_frac", "cum_mu", "cp_mu", "gantry", "collimator", "couch",
     "jaw_x1", "jaw_x2", "jaw_y1", "jaw_y2", "area", "x_perim", "y_perim",
     "perim", "cmp_score"}

-----------------------------------------------------------------------------
(* Properties of FxGroup construction *)

FxGroupBuilt == input.call = "FxGroup" /\ result # Pending /\ ~IsRaised(result)

\* control point j of a group's beam as the data set records it
RecordedControlPoint(beam, j) ==
    ControlPoint_init(beam.beam_dataset.ControlPointSequence[j],
                      Beam_leaf_boundaries(beam), <<>>)

\* C2: after a FxGroup has been constructed, every control point whose jaw
\* rectangle is the maximum field size rectangle (no asymmetric jaw recorded
\* on it) reports, through ControlPoint.jaws and through Beam.jaws, the jaw
\* record of its beam's first control point.
C2_JawBackfill ==
    FxGroupBuilt =>
        \A k \in 1..Len(result.beam) :
            \A j \in 1..Len(result.beam[k].control_point) :
                IsMaxField(result, ControlPoint_jaws(RecordedControlPoint(result.beam[k], j)))
                => /\ ControlPoint_jaws(result.beam[k].control_point[j])
                      = ControlPoint_jaws(RecordedControlPoint(result.beam[k], 1))
                   /\ Beam_jaws(result.beam[k])[j]
                      = ControlPoint_jaws(RecordedControlPoint(result.beam[k], 1))

\* the scores of every control point of every beam of a group, in one list
AllScores(group) ==
    flatten([k \in 1..Len(group.beam) |->
                Beam_younge_complexity_scores(group.beam[k]).tolist])

\* C9: for every FxGroup, fx_mu is the sum of the meter sets of its beams,
\* beam_count is the number of its beams, cp_counts[k] is the number of
\* control points of beam k, and younge_complexity_score is the sum over its
\* beams of the sum of that beam's per-point complexity scores.
C9_GroupAggregates ==
    FxGroupBuilt =>
        /\ FxGroup_fx_mu(result)
           = NpSum([k \in 1..Len(result.beam) |-> result.beam[k].meter_set])
        /\ FxGroup_beam_count(result) = Len(result.beam)
        /\ Len(FxGroup_cp_counts(result)) = Len(result.beam)
        /\ \A k \in 1..Len(result.beam) :
              FxGroup_cp_counts(result)[k] = Len(result.beam[k].control_point)
        /\ FxGroup_younge_complexity_score(result) = NpSum(AllScores(result))

\* a group of two beams that both deliver MU over several control points
C9_Witness ==
    /\ FxGroupBuilt
    /\ Len(result.beam) = 2
    /\ result.beam[1].meter_set # result.beam[2].meter_set
    /\ \E i \in 2..Len(AllScores(result)) :
          IsFinite(AllScores(result)[i]) /\ AllScores(result)[i] # R(0)
    /\ FxGroup_younge_complexity_score(result) # R(0)

\* the positions, in the plan's beam sequence, of the beams a group references
ReferencedPositions ==
    {p \in 1..Len(input.plan_beam_sequences) :
        \E r \in 1..Len(input.fx_grp_seq.ReferencedBeamSequence) :
            input.fx_grp_seq.ReferencedBeamSequence[r].ReferencedBeamNumber
            = input.plan_beam_sequences[p].BeamNumber}

\* the k-th referenced position, in beam sequence order
ReferencedPosition(k) ==
    CHOOSE p \in ReferencedPositions :
        Cardinality({q \in ReferencedPositions : q <= p}) = k

\* the meter sets a group records for a beam number
RecordedMeterSets(number) ==
    {R(input.fx_grp_seq.ReferencedBeamSequence[r].BeamMeterset) :
        r \in {q \in 1..Len(input.fx_grp_seq.ReferencedBeamSequence) :
                  input.fx_grp_seq.ReferencedBeamSequence[q].ReferencedBeamNumber = number}}

\* C10: a FxGroup contains exactly the beams of the plan's beam sequence
\* whose BeamNumber appears in the group's ReferencedBeamSequence, in beam
\* sequence order, each with the BeamMeterset the group records for that
\* number; an unreferenced beam is excluded and no beam is included twice.
C10_ReferencedBeams ==
    FxGroupBuilt =>
        /\ Len(result.beam) = Cardinality(ReferencedPositions)
        /\ \A k \in 1..Len(result.beam) :
              /\ result.beam[k].beam_dataset
                 = input.plan_beam_sequences[ReferencedPosition(k)]
              /\ result.beam[k].meter_set
                 \in RecordedMeterSets(input.plan_beam_sequences[ReferencedPosition(k)].BeamNumber)

\* a group that records two meter sets for the number of the plan's second
\* beam, and does not reference the plan's first beam
C10_Witness ==
    /\ FxGroupBuilt
    /\ Len(input.plan_beam_sequences) = 2
    /\ ReferencedPositions = {2}
    /\ Len(result.beam) = 1
    /\ Cardinality(RecordedMeterSets(input.plan_beam_sequences[2].BeamNumber)) = 2

\* the group as FxGroup.__init__ left it, after one application
AppliedOnce == input.self

\* C23: a second call of update_missing_jaws on a constructed fraction group
\* leaves every control point's jaw record, Beam.jaws, the apertures and the
\* group's complexity score as they were after the first application.
C23_BackfillIdempotent ==
    input.call = "FxGroup.update_missing_jaws" =>
        /\ Len(result.beam) = Len(AppliedOnce.beam)
        /\ \A k \in 1..Len(result.beam) :
              /\ Beam_jaws(result.beam[k]) = Beam_jaws(AppliedOnce.beam[k])
              /\ Beam_aperture(result.beam[k]) = Beam_aperture(AppliedOnce.beam[k])
              /\ \A j \in 1..Len(result.beam[k].control_point) :
                    ControlPoint_jaws(result.beam[k].control_point[j])
                    = ControlPoint_jaws(AppliedOnce.beam[k].control_point[j])
        /\ FxGroup_younge_complexity_score(result)
           = FxGroup_younge_complexity_score(AppliedOnce)

\* the second call has run on a group with a beam whose first control point
\* records jaws and whose second control point is at the maximum field size
C23_Witness ==
    /\ input.call = "FxGroup.update_missing_jaws"
    /\ \E k \in 1..Len(result.beam) :
          /\ Len(result.beam[k].control_point) >= 2
          /\ ~IsMaxField(result, ControlPoint_jaws(result.beam[k].control_point[1]))
          /\ IsMaxField(result, ControlPoint_jaws(result.beam[k].control_point[2]))

\* the aperture of control point j of a beam, taken inside jaw record jaws[j]
ApertureWithin(beam, jaws, j) ==
    ApertureOf(beam.control_point[j], jaws[j],
               ControlPoint_leaf_type(beam.control_point[j]))

\* the values FxGroup.__init__ left stored in a beam are those computed from
\* the jaw records jaws
StoredFrom(beam, jaws) ==
    /\ \A j \in 1..Len(beam.control_point) :
          beam.control_point[j].path_lengths
          = get_xy_path_lengths(ApertureWithin(beam, jaws, j))
    /\ beam.summary.jaw_x1 = [j \in 1..Len(jaws) |-> jaws[j].x_min]
    /\ beam.summary.jaw_x2 = [j \in 1..Len(jaws) |-> jaws[j].x_max]
    /\ beam.summary.jaw_y1 = [j \in 1..Len(jaws) |-> jaws[j].y_min]
    /\ beam.summary.jaw_y2 = [j \in 1..Len(jaws) |-> jaws[j].y_max]
    /\ beam.summary.area
       = [j \in 1..Len(jaws) |-> ShapeArea(ApertureWithin(beam, jaws, j))]
    /\ beam.summary.x_perim
       = [j \in 1..Len(jaws) |-> get_xy_path_lengths(ApertureWithin(beam, jaws, j))[1]]
    /\ beam.summary.y_perim
       = [j \in 1..Len(jaws) |-> get_xy_path_lengths(ApertureWithin(beam, jaws, j))[2]]

\* the stored values agree with those read from the control points after
\* construction
StoredAsRead(beam) ==
    /\ beam.summary.jaw_x1 = [j \in 1..Len(Beam_jaws(beam)) |-> Beam_jaws(beam)[j].x_min]
    /\ beam.summary.jaw_x2 = [j \in 1..Len(Beam_jaws(beam)) |-> Beam_jaws(beam)[j].x_max]
    /\ beam.summary.jaw_y1 = [j \in 1..Len(Beam_jaws(beam)) |-> Beam_jaws(beam)[j].y_min]
    /\ beam.summary.jaw_y2 = [j \in 1..Len(Beam_jaws(beam)) |-> Beam_jaws(beam)[j].y_max]
    /\ beam.summary.area = Beam_area(beam)
    /\ beam.summary.x_perim = Beam_perimeter_x(beam)
    /\ beam.summary.y_perim = Beam_perimeter_y(beam)
    /\ beam.summary.perim = Beam_perimeter(beam)
    /\ beam.summary.cmp_score = Beam_younge_complexity_scores(beam).tolist

\* C27: in a constructed fraction group the perimeter pair stored in every
\* control point and the jaw, area and perimeter columns stored in
\* Beam.summary are the values computed from the backfilled jaw records, and
\* they agree with the values read from the control points afterwards.
C27_BackfillBeforeDerived ==
    (input.call = "FxGroup" /\ result # Pending /\ ~IsRaised(result)) =>
        \A k \in 1..Len(result.beam) :
            /\ StoredFrom(result.beam[k], BackfilledJaws(result, result.beam[k]))
            /\ StoredAsRead(result.beam[k])

-----------------------------------------------------------------------------
(* Properties of PlanSet construction *)

\* the plan of every file on disk, or the exception its construction raises
FilePlans == [p \in Paths |-> Plan_init([path |-> p], <<>>, Files)]

Fails(path) == IsRaised(FilePlans[path])

\* the rows a file is to contribute: one per summary row of its plan, none
\* when the construction of its plan raises
RowsOf(path) ==
    IF Fails(path) THEN <<>>
    ELSE [f \in 1..Len(FilePlans[path].summary) |->
            Join(",", [c \in 1..Len(COLUMNS) |-> FilePlans[path].summary[f][COLUMNS[c]]])]

\* the rows of the first n files of the list, in the order of the list
RECURSIVE RowsOfFirst(_)
RowsOfFirst(n) ==
    IF n = 0 THEN <<>> ELSE RowsOfFirst(n - 1) \o RowsOf(file_paths[n])

Count(seq, x) == Cardinality({i \in 1..Len(seq) : seq[i] = x})

\* C3: whichever files fail with an Exception, PlanSet construction
\* completes with a summary table of the header followed by exactly the rows
\* of the files that did not fail; a failing file adds no row and leaves the
\* rows accumulated before it unchanged; with processes == 1 and with
\* processes > 1.
C3_FailureIsolation ==
    input.call = "PlanSet" =>
        /\ pc \in {"run", "pool", "done", "halted"}
        /\ summary_table[1] = Header
        /\ (processes = 1 /\ pc \in {"run", "done"}) =>
              /\ summary_table = <<Header>> \o RowsOfFirst(idx)
              /\ pc = "done" => idx = Len(file_paths)
        /\ (processes > 1 /\ pc = "pool") => summary_table = <<Header>>
        /\ (processes > 1 /\ pc = "done") =>
              /\ Len(summary_table) = 1 + Len(RowsOfFirst(Len(file_paths)))
              /\ \A path \in Paths :
                    \A f \in 1..Len(RowsOf(path)) :
                        Count(summary_table, RowsOf(path)[f]) = Count(file_paths, path)

\* a finished sequential run in which a plan that gave rows is followed by a
\* file that failed
C3_Witness ==
    /\ input.call = "PlanSet"
    /\ processes = 1
    /\ pc = "done"
    /\ Len(file_paths) = 2
    /\ ~Fails(file_paths[1])
    /\ Fails(file_paths[2])
    /\ Len(summary_table) > 1

\* a finished run of the pool in which a file failed and another gave rows
C3_WitnessPool ==
    /\ input.call = "PlanSet"
    /\ processes > 1
    /\ pc = "done"
    /\ \E k \in 1..Len(file_paths) : Fails(file_paths[k])
    /\ Len(summary_table) > 1

\* sum() of the numbers of fraction groups of the files of the list
RECURSIVE FxGroupsOfFirst(_)
FxGroupsOfFirst(n) ==
    IF n = 0 THEN 0
    ELSE FxGroupsOfFirst(n - 1) + Len(Files[file_paths[n]].FractionGroupSequence)

\* row f of a plan (f counted from 1) carries its index and the aggregates
\* of fraction group f
RowCarries(plan, f) ==
    /\ plan.summary[f]["Fx Group #"] = str(f)
    /\ plan.summary[f]["# of Fx Group(s)"] = str(Len(plan.fx_group))
    /\ plan.summary[f]["Fractions"] = plan.fx_group[f].fxs
    /\ plan.summary[f]["Plan MUs"] = FormatFixed(FxGroup_fx_mu(plan.fx_group[f]), 1)
    /\ plan.summary[f]["Beam Count(s)"] = str(FxGroup_beam_count(plan.fx_group[f]))
    /\ plan.summary[f]["Control Point(s)"]
       = str(IntSum(FxGroup_cp_counts(plan.fx_group[f])))
    /\ plan.summary[f]["Complexity Score(s)"]
       = FormatFixed(FxGroup_younge_complexity_score(plan.fx_group[f]), 3)

\* C4: a Plan has one summary row per fraction group, in fraction group
\* order; row f carries "Fx Group #" f + 1 (f counted from 0), the number of
\* fraction groups, and the fraction count, MU, beam count, control point
\* count and complexity score of fx_group[f]; so the table of a PlanSet of
\* successfully analysed plans has the header and one line per fraction
\* group of every plan.
C4_RowPerFxGroup ==
    input.call = "PlanSet" =>
        /\ result # Pending =>
              /\ Len(result.fx_group) = Len(result.rt_plan.FractionGroupSequence)
              /\ Len(result.summary) = Len(result.fx_group)
              /\ \A f \in 1..Len(result.summary) : RowCarries(result, f)
        /\ (pc = "done" /\ \A k \in 1..Len(file_paths) : ~Fails(file_paths[k])) =>
              Len(summary_table) = 1 + FxGroupsOfFirst(Len(file_paths))

\* a finished run over two plans that did not fail, the last one analysed
\* having three fraction groups
C4_Witness ==
    /\ input.call = "PlanSet"
    /\ pc = "done"
    /\ Len(file_paths) = 2
    /\ \A k \in 1..Len(file_paths) : ~Fails(file_paths[k])
    /\ result # Pending
    /\ Len(result.fx_group) = 3
    /\ Len(summary_table) >= 5

\* the orders in which n workers' lists can arrive
Orders(n) == {order \in [1..n -> 1..n] : \A i, j \in 1..n : i # j => order[i] # order[j]}

\* C5: with processes > 1, in whatever order the workers complete, the
\* header stays the first entry of summary_table, and the rows of each plan
\* are contiguous and in increasing fraction group order: the table is the
\* header followed by the whole row lists of the files in some order.
C5_RowsContiguous ==
    (input.call = "PlanSet" /\ processes > 1) =>
        /\ summary_table[1] = Header
        /\ pc = "done" =>
              \E order \in Orders(Len(file_paths)) :
                  summary_table
                  = <<Header>> \o flatten([k \in 1..Len(file_paths) |->
                                              RowsOf(file_paths[order[k]])])

\* a finished run of the pool over two plans of several rows each, the
\* rows of the second file ahead of those of the first
C5_Witness ==
    /\ input.call = "PlanSet"
    /\ processes > 1
    /\ pc = "done"
    /\ Len(file_paths) = 2
    /\ file_paths[1] # file_paths[2]
    /\ Len(RowsOf(file_paths[1])) >= 2
    /\ Len(RowsOf(file_paths[2])) >= 2
    /\ summary_table[2] = RowsOf(file_paths[2])[1]

-----------------------------------------------------------------------------
(* Properties of the comparisons *)

Compares(call) == input.call = call /\ result # Pending

\* every leaf position of a, in both banks, is within the tolerance of the
\* corresponding one of b
LeavesWithinTolerance(a, b) ==
    /\ ControlPoint_leaf_type(a) = ControlPoint_leaf_type(b)
    /\ ControlPoint_leaf_type(a) # "None" =>
          \A side \in {1, 2} :
              /\ Len(ControlPoint_mlc(a)[side]) = Len(ControlPoint_mlc(b)[side])
              /\ \A i \in 1..Len(ControlPoint_mlc(a)[side]) :
                    ~FloatGreater(RAbs(RSub(ControlPoint_mlc(a)[side][i],
                                            ControlPoint_mlc(b)[side][i])),
                                  CONTROL_POINT_POS_TOLERANCE)

SameLeafCount(a, b) ==
    /\ ControlPoint_leaf_type(a) # "None"
    /\ ControlPoint_leaf_type(b) # "None"
    /\ \A side \in {1, 2} :
          Len(ControlPoint_mlc(a)[side]) = Len(ControlPoint_mlc(b)[side])

CumMuWithinTolerance(a, b) ==
    ~FloatGreater(RAbs(RSub(ControlPoint_cum_mu(a), ControlPoint_cum_mu(b))),
                  CONTROL_POINT_MU_TOLERANCE)

\* C11: two control points with the same number of leaves compare equal if
\* and only if their cumulative MU differ by at most
\* CONTROL_POINT_MU_TOLERANCE and every corresponding leaf position differs
\* by at most CONTROL_POINT_POS_TOLERANCE.
C11_ControlPointEquality ==
    (Compares("ControlPoint.__eq__") /\ SameLeafCount(input.self, input.other)) =>
        /\ result \in {Return(TRUE), Return(FALSE)}
        /\ result = Return(TRUE)
           <=> /\ CumMuWithinTolerance(input.self, input.other)
               /\ LeavesWithinTolerance(input.self, input.other)

\* every control point of the beam carries MLC leaves
CarriesLeaves(beam) ==
    \A i \in 1..Len(beam.control_point) :
        ControlPoint_leaf_type(beam.control_point[i]) # "None"

\* C12: two beams compare equal only if their meter sets are within
\* BEAM_MU_TOLERANCE of each other: a == b is False whenever
\* |a.meter_set - b.meter_set| > BEAM_MU_TOLERANCE, whichever is larger
\* (stated for beams whose control points all carry leaves).
C12_BeamMuTolerance ==
    (/\ Compares("Beam.__eq__")
     /\ CarriesLeaves(input.self)
     /\ CarriesLeaves(input.other)
     /\ FloatGreater(RAbs(RSub(input.self.meter_set, input.other.meter_set)),
                     BEAM_MU_TOLERANCE))
    => result = Return(FALSE)

\* the control points of two beams agree pairwise within the tolerances
ControlPointsMatch(a, b) ==
    /\ Len(a.control_point) = Len(b.control_point)
    /\ \A i \in 1..Len(a.control_point) :
          /\ CumMuWithinTolerance(a.control_point[i], b.control_point[i])
          /\ LeavesWithinTolerance(a.control_point[i], b.control_point[i])

\* the beams of two fraction groups agree pairwise: meter sets within
\* BEAM_MU_TOLERANCE and control points pairwise within their tolerances
BeamsMatch(a, b) ==
    /\ Len(a.beam) = Len(b.beam)
    /\ \A k \in 1..Len(a.beam) :
          /\ ~FloatGreater(RAbs(RSub(a.beam[k].meter_set, b.beam[k].meter_set)),
                           BEAM_MU_TOLERANCE)
          /\ ControlPointsMatch(a.beam[k], b.beam[k])

FxGroupsMatch(a, b) ==
    /\ Len(a.fx_group) = Len(b.fx_group)
    /\ \A f \in 1..Len(a.fx_group) : BeamsMatch(a.fx_group[f], b.fx_group[f])

IdentityFields ==
    {"RTPlanLabel", "PatientName", "PatientID", "StudyInstanceUID",
     "SOPInstanceUID", "Manufacturer", "ManufacturerModelName"}

IdentityMatches(a, b) ==
    \A tag \in IdentityFields : TagStr(a.rt_plan, tag) = TagStr(b.rt_plan, tag)

\* C13: two plans compare equal if and only if their six identity fields
\* are equal and their fraction groups are pairwise equal.  The half checked
\* here: a changed identity field, or a fraction group replaced by a
\* different one, makes the comparison return False.
C13_PlanEquality ==
    (Compares("Plan.__eq__")
     /\ ~(IdentityMatches(input.self, input.other)
          /\ FxGroupsMatch(input.self, input.other)))
    => result = Return(FALSE)

\* C14: equality is reflexive: X == X returns True, also for a control point
\* that carries no leaves.
C14_Reflexive ==
    (Compares("ControlPoint.__eq__") /\ input.self = input.other)
    => result = Return(TRUE)

\* C15: a Plan constructed twice from the same input record gives two plans
\* p1 and p2 with identical summary rows and p1 == p2 True.
C15_RoundTrip ==
    (Compares("Plan.__eq__") /\ input.self.rt_plan = input.other.rt_plan)
    => /\ input.self.summary = input.other.summary
       /\ result = Return(TRUE)

-----------------------------------------------------------------------------
(* Properties of degenerate and incomplete input (C16, C17) *)

ZeroAreaPoints(beam) ==
    {i \in 1..Len(beam.control_point) : Beam_area(beam)[i] = R(0)}

\* the sum of the score terms of the control points in a set
RECURSIVE SumOver(_, _)
SumOver(scores, points) ==
    IF points = {} THEN R(0)
    ELSE LET i == CHOOSE i \in points : TRUE
         IN  RAdd(scores[i], SumOver(scores, points \ {i}))

\* C16: a control point of aperture area 0 is a domain error for that point
\* only: its score term is 0 or the undefined marker, the beam is
\* constructed, and the score the beam contributes is the sum of the terms of
\* its other control points.
C16_ZeroAreaContained ==
    (BeamBuilt /\ RLess(R(0), result.meter_set) /\ ZeroAreaPoints(result) # {}) =>
        LET scores == Beam_younge_complexity_scores(result).tolist
        IN  /\ \A i \in ZeroAreaPoints(result) : scores[i] \in {R(0), NaN}
            /\ NpSumOf(Beam_younge_complexity_scores(result))
               = SumOver(scores, (1..Len(scores)) \ ZeroAreaPoints(result))

\* C17: absent angle tags never make Beam construction raise: a beam that
\* is constructed with ignore_zero_mu_cp False is also constructed with
\* ignore_zero_mu_cp True, whichever of its control points carry the tags.
C17_AbsentAnglesTolerated ==
    (input.call = "Beam" /\ result # Pending /\ ~IsRaised(Unfiltered))
    => ~IsRaised(result)

-----------------------------------------------------------------------------
(* Properties of the options (C18) *)

RecognizedKeys ==
    {"max_field_size_x", "max_field_size_y", "complexity_weight_x",
     "complexity_weight_y"}

\* C18: get_options(over_rides) returns a dictionary of exactly the four
\* recognized keys, each with the override value when over_rides has the key
\* and the default otherwise; other keys of over_rides are ignored without
\* error, and a later get_options({}) returns the defaults.
C18_GetOptions ==
    (input.call = "get_options" /\ result # Pending) =>
        /\ ~IsRaised(result)
        /\ DOMAIN result = RecognizedKeys
        /\ \A k \in RecognizedKeys :
              result[k] = IF k \in DOMAIN input.over_rides
                          THEN input.over_rides[k]
                          ELSE IF k \in {"max_field_size_x", "max_field_size_y"}
                               THEN R(400) ELSE R(1)

\* a call that overrides one recognized key and carries an unrecognized one
C18_Witness ==
    /\ input.call = "get_options"
    /\ result # Pending
    /\ "max_field_size_z" \in DOMAIN input.over_rides
    /\ "complexity_weight_x" \in DOMAIN input.over_rides
    /\ "max_field_size_x" \notin DOMAIN input.over_rides
    /\ result.complexity_weight_x = input.over_rides.complexity_weight_x

\* the later call without overrides has returned
C18_WitnessLater ==
    /\ input.call = "get_options"
    /\ input.over_rides = <<>>
    /\ result = DEFAULT_OPTIONS

-----------------------------------------------------------------------------
(* Properties of ControlPoint construction (C19, C20) *)

ControlPointBuilt == input.call = "ControlPoint" /\ result # Pending /\ ~IsRaised(result)

\* the spellings of a device type
Spellings(type) ==
    CASE type = "asymx" -> {"ASYMX", "asymx", "Asymx"}
      [] type = "asymy" -> {"ASYMY", "asymy", "Asymy"}
      [] type = "mlcx" -> {"MLCX", "mlcx", "Mlcx"}
      [] type = "mlcy" -> {"MLCY", "mlcy", "Mlcy"}

\* the positions of the records of a type that carry both tags, in order
RECURSIVE Recorded(_, _)
Recorded(seq, type) ==
    IF seq = <<>> THEN <<>>
    ELSE Recorded(SubSeq(seq, 1, Len(seq) - 1), type)
         \o (IF /\ "RTBeamLimitingDeviceType" \in DOMAIN seq[Len(seq)]
                /\ "LeafJawPositions" \in DOMAIN seq[Len(seq)]
                /\ seq[Len(seq)].RTBeamLimitingDeviceType \in Spellings(type)
             THEN <<seq[Len(seq)].LeafJawPositions>> ELSE <<>>)

\* the limits of one axis as the specification states them
AxisLimits(pairs, max_field_size) ==
    IF pairs # <<>>
    THEN LET pair == pairs[Len(pairs)]
         IN  <<R(IF pair[1] < pair[2] THEN pair[1] ELSE pair[2]),
               R(IF pair[1] < pair[2] THEN pair[2] ELSE pair[1])>>
    ELSE <<RNeg(RDiv(max_field_size, R(2))), RDiv(max_field_size, R(2))>>

InputDevices ==
    IF "BeamLimitingDevicePositionSequence" \in DOMAIN input.cp_elem
    THEN input.cp_elem.BeamLimitingDevicePositionSequence
    ELSE <<>>

\* C19: for each axis d, d_min and d_max are the minimum and maximum of the
\* recorded asymmetric jaw pair of d, or -max_field_size_d / 2 and
\* +max_field_size_d / 2 when none is recorded, and d_min <= d_max.
C19_JawLimits ==
    ControlPointBuilt =>
        LET jaws == ControlPoint_jaws(result)
            x == AxisLimits(Recorded(InputDevices, "asymx"),
                            get_options(input.kwargs).max_field_size_x)
            y == AxisLimits(Recorded(InputDevices, "asymy"),
                            get_options(input.kwargs).max_field_size_y)
        IN  /\ jaws.x_min = x[1] /\ jaws.x_max = x[2]
            /\ jaws.y_min = y[1] /\ jaws.y_max = y[2]
            /\ ~RLess(jaws.x_max, jaws.x_min)
            /\ ~RLess(jaws.y_max, jaws.y_min)

\* a control point whose x jaws are recorded in descending order and whose y
\* jaws come from an overridden field size
C19_Witness ==
    /\ ControlPointBuilt
    /\ Recorded(InputDevices, "asymx") = <<(<<40, -40>>)>>
    /\ Recorded(InputDevices, "asymy") = <<>>
    /\ "max_field_size_y" \in DOMAIN input.kwargs
    /\ ControlPoint_jaws(result).x_min = R(-40)
    /\ ControlPoint_jaws(result).y_max = R(15)

\* a record with both tags whose type is one of mlcx, mlcy, asymx, asymy in
\* any spelling
Recognized(record) ==
    /\ "RTBeamLimitingDeviceType" \in DOMAIN record
    /\ "LeafJawPositions" \in DOMAIN record
    /\ record.RTBeamLimitingDeviceType
          \in UNION {Spellings(type) : type \in {"asymx", "asymy", "mlcx", "mlcy"}}

\* the control point constructed from the recognized records alone
OfRecognized ==
    ControlPoint_init(ControlPointElem(R(0), SelectSeq(InputDevices, Recognized)),
                      input.leaf_boundaries, input.kwargs)

\* C20: only records with both tags are consumed, the type is matched
\* case-insensitively, and a record whose type is none of mlcx, mlcy, asymx,
\* asymy changes neither the jaws nor the aperture and does not make
\* construction fail: the result is that of the recognized records alone.
C20_OnlyRecognizedDevices ==
    (input.call = "ControlPoint" /\ result # Pending /\ ~IsRaised(OfRecognized)) =>
        /\ ~IsRaised(result)
        /\ ControlPoint_jaws(result) = ControlPoint_jaws(OfRecognized)
        /\ ControlPoint_aperture(result) = ControlPoint_aperture(OfRecognized)

-----------------------------------------------------------------------------
(* Properties of the perimeter decomposition (C21, C22) *)

PathLengthsReturned == input.call = "get_xy_path_lengths" /\ result # Pending

\* the extent of a ring along coordinate c
Extent(ring, c) ==
    LET values == {ring[k][c] : k \in 1..Len(ring)}
        low == CHOOSE v \in values : \A u \in values : ~RLess(u, v)
        high == CHOOSE v \in values : \A u \in values : ~RLess(v, u)
    IN  RSub(high, low)

\* the sum of |d| along coordinate c over the edges k -> k + 1 of a ring,
\* from edge k on
RECURSIVE EdgeSum(_, _, _)
EdgeSum(ring, c, k) ==
    IF k >= Len(ring) THEN R(0)
    ELSE RAdd(RAbs(RSub(ring[k + 1][c], ring[k][c])), EdgeSum(ring, c, k + 1))

\* C21: for an axis-aligned rectangle of width w and height h,
\* get_xy_path_lengths returns [2w, 2h]; for any polygon it returns the sum
\* of |dx| and the sum of |dy| over consecutive vertices of the closed
\* exterior ring.
C21_PolygonPathLengths ==
    (PathLengthsReturned /\ input.shapely_object.type = "Polygon") =>
        LET ring == input.shapely_object.exterior
        IN  /\ result = Return(<<EdgeSum(ring, 1, 1), EdgeSum(ring, 2, 1)>>)
            /\ input.shapely_object \in Rectangles =>
                  result = Return(<<RMul(R(2), Extent(ring, 1)),
                                    RMul(R(2), Extent(ring, 2))>>)

\* a rectangle of width 3 and height 2 away from the origin
C21_Witness ==
    /\ PathLengthsReturned
    /\ input.shapely_object = Rectangle(<<-1, 2>>, 3, 2)
    /\ result = Return(<<R(6), R(4)>>)

\* the triangle with a slanted edge
C21_WitnessSlanted ==
    /\ PathLengthsReturned
    /\ input.shapely_object.type = "Polygon"
    /\ input.shapely_object \notin Rectangles
    /\ result = Return(<<R(4), R(6)>>)

\* the polygons of a shape, at any depth
RECURSIVE PolygonsOf(_)
PolygonsOf(shape) ==
    IF shape.type = "Polygon" THEN <<shape>>
    ELSE IF shape.type \in {"MultiPolygon", "GeometryCollection"}
    THEN flatten([k \in 1..Len(shape.geoms) |-> PolygonsOf(shape.geoms[k])])
    ELSE <<>>

\* the component-wise sum of the edge sums of a list of polygons
RECURSIVE EdgeSums(_)
EdgeSums(polygons) ==
    IF polygons = <<>> THEN <<R(0), R(0)>>
    ELSE LET rest == EdgeSums(SubSeq(polygons, 1, Len(polygons) - 1))
             ring == polygons[Len(polygons)].exterior
         IN  <<RAdd(rest[1], EdgeSum(ring, 1, 1)), RAdd(rest[2], EdgeSum(ring, 2, 1))>>

\* C22: get_xy_path_lengths is additive over the members of a MultiPolygon
\* or of a collection nested to any depth: the result is the component-wise
\* sum over the polygons the shape contains, members that are no polygons
\* contribute (0, 0), and an empty shape yields (0, 0).
C22_Additive ==
    PathLengthsReturned =>
        result = Return(EdgeSums(PolygonsOf(input.shapely_object)))

-----------------------------------------------------------------------------
(* Properties of the batch (C24, C29) *)

\* the report of the failure of a file
FailureReport(path) == "Analysis failed\n" \o FilePlans[path].raised \o "\n"

\* C24: every file whose analysis fails is reported: when the batch has
\* finished, the output holds a failure report for each file of the list
\* whose Plan construction raises, with processes == 1 and with
\* processes > 1.
C24_FailuresReported ==
    (input.call = "PlanSet" /\ pc = "done") =>
        \A k \in 1..Len(file_paths) :
            Fails(file_paths[k]) =>
                \E i \in 1..Len(stdout) : stdout[i] = FailureReport(file_paths[k])

\* the summary table PlanSet._run leaves after the first n files of the list
RECURSIVE SequentialTable(_)
SequentialTable(n) ==
    IF n = 0 THEN <<Header>>
    ELSE TableAfter(SequentialTable(n - 1), FilePlans[file_paths[n]])

\* the data rows of a summary table
DataRows(table) == Tail(table)

SameMultiset(a, b) ==
    /\ Len(a) = Len(b)
    /\ \A i \in 1..Len(a) : Count(a, a[i]) = Count(b, a[i])

\* C29: for the same list of files and the same options, the summary table
\* of a finished PlanSet has the header and the multiset of data rows of the
\* table the sequential run gives, with processes == 1 and, for every order
\* in which the workers complete and every set of failing files, with
\* processes > 1.
C29_ModesEquivalent ==
    (input.call = "PlanSet" /\ pc = "done") =>
        /\ summary_table[1] = SequentialTable(Len(file_paths))[1]
        /\ SameMultiset(DataRows(summary_table),
                        DataRows(SequentialTable(Len(file_paths))))
        /\ processes = 1 => summary_table = SequentialTable(Len(file_paths))

\* a finished run of the pool whose workers completed in another order than
\* that of the list, one of them on a file that failed, another on a plan of
\* several rows
C29_Witness ==
    /\ input.call = "PlanSet"
    /\ processes > 1
    /\ pc = "done"
    /\ \E k \in 1..Len(file_paths) : Fails(file_paths[k])
    /\ Len(summary_table) > 2
    /\ data # [k \in 1..Len(file_paths) |-> RowsOf(file_paths[k])]

-----------------------------------------------------------------------------
(* Properties of the command line pipeline (C25) *)

\* the rows of the first n files of a list that did not fail
RECURSIVE RowsOfFiles(_, _)
RowsOfFiles(paths, n) ==
    IF n = 0 THEN <<>> ELSE RowsOfFiles(paths, n - 1) \o RowsOf(paths[n])

\* C25: in the command line pipeline a plan file whose analysis raises does
\* not abort the batch: main() ends with the output CSV written, holding the
\* header and the rows of every file that did not fail.
C25_MainSurvivesFailure ==
    (input.call = "main" /\ pc \in {"done", "raised"}) =>
        /\ ~IsRaised(result)
        /\ result.written
           = Join("\n", <<Header>> \o RowsOfFiles(file_paths, Len(file_paths)))

-----------------------------------------------------------------------------
(* Properties of flatten_list_of_lists (C26) *)

\* the values of the sublists, in their original order
RECURSIVE AllValues(_)
AllValues(some_list) ==
    IF some_list = <<>> THEN <<>>
    ELSE AllValues(SubSeq(some_list, 1, Len(some_list) - 1)) \o some_list[Len(some_list)]

Ascending(list) == \A k \in 1..(Len(list) - 1) : list[k] <= list[k + 1]

NoDuplicates(list) == \A i, j \in 1..Len(list) : i # j => list[i] # list[j]

SameValues(a, b) == {a[k] : k \in 1..Len(a)} = {b[k] : k \in 1..Len(b)}

SameCounts(a, b) == \A v \in FlattenValues : Count(a, v) = Count(b, v)

\* position of the first occurrence of a value in a list
FirstAt(list, v) == CHOOSE k \in 1..Len(list) : list[k] = v /\ \A m \in 1..(k - 1) : list[m] # v

\* C26: flatten_list_of_lists returns, with both flags, each distinct value
\* once in ascending order; with sort alone, all values in ascending order;
\* with remove_duplicates alone, the distinct values in order of first
\* occurrence; with neither flag, all values in their original order.
C26_Flatten ==
    (input.call = "flatten_list_of_lists" /\ result # Pending) =>
        LET original == AllValues(input.some_list)
            list == result.returned
        IN  /\ (input.remove_duplicates /\ input.sort) =>
                  SameValues(list, original) /\ NoDuplicates(list) /\ Ascending(list)
            /\ (~input.remove_duplicates /\ input.sort) =>
                  SameCounts(list, original) /\ Len(list) = Len(original) /\ Ascending(list)
            /\ (input.remove_duplicates /\ ~input.sort) =>
                  /\ SameValues(list, original) /\ NoDuplicates(list)
                  /\ \A i, j \in 1..Len(list) :
                        i < j => FirstAt(original, list[i]) < FirstAt(original, list[j])
            /\ (~input.remove_duplicates /\ ~input.sort) => list = original

-----------------------------------------------------------------------------
(* Properties of Plan construction (C28) *)

\* the options of the plan are the keyword arguments over the defaults
PlanOptions == get_options(input.kwargs)

\* C28: the option overrides given to Plan are the options in effect in
\* every fraction group, beam and control point of the plan: the complexity
\* scores are those computed with the overridden weights, and the jaw
\* records are those computed with the overridden maximum field sizes.
C28_OverridesInEffect ==
    (input.call = "Plan" /\ result # Pending /\ ~IsRaised(result)) =>
        /\ result.options = PlanOptions
        /\ \A f \in 1..Len(result.fx_group) :
              LET group == result.fx_group[f]
              IN  /\ group.options = PlanOptions
                  /\ \A k \in 1..Len(group.beam) :
                        LET beam == group.beam[k]
                        IN  /\ beam.options = PlanOptions
                            /\ Beam_younge_complexity_scores(beam)
                               = Beam_younge_complexity_scores(
                                    [beam EXCEPT !.options = PlanOptions])
                            /\ \A j \in 1..Len(beam.control_point) :
                                  LET cp == beam.control_point[j]
                                  IN  /\ cp.options = PlanOptions
                                      /\ ControlPoint_jaws(cp)
                                         = ControlPoint_jaws(
                                              [cp EXCEPT !.options = PlanOptions])

-----------------------------------------------------------------------------
(* Properties of comparison between objects with different numbers of      *)
(* children (C30)                                                          *)

\* every control point of the beam records leaves
HasLeaves(beam) ==
    \A j \in 1..Len(beam.control_point) :
        ControlPoint_leaf_type(beam.control_point[j]) # "None"

\* C30: for two beams with different numbers of control points, a == b
\* returns False: it neither returns True by ignoring the surplus control
\* points nor raises, whichever of the two beams is on the left.
C30_DifferentLengthsUnequal ==
    (input.call = "Beam.__eq__" /\ result # Pending
     /\ HasLeaves(input.self) /\ HasLeaves(input.other)
     /\ Len(input.self.control_point) # Len(input.other.control_point)) =>
        result = Return(FALSE)

====
